---- MODULE Spec2Model ----
(***************************************************************************)
(* Lifecycle orchestration and host/sandbox handoff of sbox.                *)
(*                                                                          *)
(* One workspace, one backend (chosen in Init), one named unit at a time.   *)
(* Orchestrator invocations (`sbox run`, `sbox stop`) are processes that    *)
(* take one step per external-tool invocation, so that two invocations      *)
(* interleave exactly where the real processes can.  The sandbox-side       *)
(* runner (`sbox entrypoint`) is a third process started by the unit.       *)
(***************************************************************************)
EXTENDS Integers, Sequences, FiniteSets, TLC

(***************************************************************************)
(* Bounds                                                                   *)
(***************************************************************************)
\* commands the invocations may issue altogether in one behaviour
MaxCmds == 2
\* distinct entries of the agent's state-home (credentials, history, ...)
MaxItems == 1
\* highest manifest schema version a host may have written
MaxVersion == 2
\* entry names and contents of the directories the cache operations are applied to
MaxEntries == 2
MaxContent == 2
\* volume specs a stored project configuration may hold before another run
MaxVolumes == 2

(***************************************************************************)
(* Program constants                                                        *)
(***************************************************************************)
EntrypointConfigVersion == 1

BackendSandbox == "sandbox"
BackendContainer == "container"

Procs == {"p1", "p2"}
Items == 1..MaxItems
\* a directory entry is <<name, content>>; the agent writes content 1
Entry(i) == <<i, 1>>
NamesOf(d) == {e[1] : e \in d}
\* the directories over the given names and contents: one content per name
Dirs(names, contents) ==
    {d \in SUBSET (names \X contents) : \A e, f \in d : e[1] = f[1] => e = f}
\* a file of the shared directory: missing, or present with content v
NoFile == [exists |-> FALSE, v |-> 0]
File(v) == [exists |-> TRUE, v |-> v]
\* a directory of the shared directory: missing, or present with entries v
NoDir == [exists |-> FALSE, v |-> {}]
Dir(v) == [exists |-> TRUE, v |-> v]
Nil == [st |-> "nil", id |-> 0]

VARIABLES
    backend,    \* BackendType of the workspace
    unit,       \* [st, id]: the unit named after the workspace; id counts creations
    home,       \* entries of the unit's state-home (container: the named volume's content)
    volume,     \* container backend: the persistence volume exists
    image,      \* a template image with the computed tag exists
    manifest,   \* .sbox/entrypoint.yaml: NoFile or its version
    envFile,    \* .sbox/env: NoFile or the host configuration it was resolved from
    cache,      \* .sbox/claude-cache: NoFile or its entries
    devBinary,  \* .sbox/sbox-dev exists
    hostCfg,    \* current host-side configuration (envs, plugins, agents)
    pc,         \* per invocation: position in its command
    cmd,        \* per invocation: command and flags
    found,      \* per invocation: result of its last lookup
    res,        \* per invocation: outcome of its command
    trace,      \* per invocation: operations performed by the current command
    budget,     \* commands issued so far
    cause,      \* command and operation of the last unit state change
    lost,       \* state-home entries held by the last unit stopped or destroyed
    projectData, \* the stored project configuration <SboxDataDir>/projects/<hash> exists
    cfg,        \* configuration: [stored (the project config on disk), file (sbox.yaml),
                \*   eff (the merged config of the last run), src (where a backend is
                \*   set), resolved (the backend type last resolved)]
    call,       \* a library function under evaluation: [fn, in, out]; NoCall when the
                \*   commands are modelled instead
    prep,       \* host-side preparation: [faults (its optional steps can fail on this
                \*   host), warn (failures the last Prepare logged and skipped)]
    runner      \* the sandbox-side runner: [pc, marker, ws, claude, steps, out, plugins,
                \*   faults (best-effort steps can fail in this unit), warn (failures
                \*   that were logged and skipped)]

lifecycleVars == <<call, backend, unit, volume, image, manifest, envFile, cache, devBinary,
                   hostCfg, pc, cmd, found, res, trace, budget, cause, lost,
                   projectData, prep, cfg>>
lifecycleVarsButCfg ==
    <<call, backend, unit, volume, image, manifest, envFile, cache, devBinary, hostCfg, pc, cmd,
      found, res, trace, budget, cause, lost, projectData, prep>>
vars == <<call, backend, unit, home, volume, image, manifest, envFile, cache, devBinary,
          hostCfg, pc, cmd, found, res, trace, budget, cause, lost, projectData,
          prep, cfg, runner>>

Exists(u) == u.st \in {"stopped", "running"}

RunnerIdle == [pc |-> "idle", marker |-> FALSE, ws |-> TRUE, claude |-> TRUE,
               steps |-> <<>>, out |-> "none", plugins |-> FALSE,
               faults |-> FALSE, warn |-> {}]

(***************************************************************************)
(* Configuration                                                            *)
(***************************************************************************)
\* no sbox.yaml was found: FindSboxFile returns (nil, nil)
NoSbox == [found |-> FALSE]

\* GetProjectConfig without a stored file: the defaults
ProjectDefaults == [profiles |-> <<>>, volumes |-> <<>>, socket |-> "", envs |-> <<>>]

\* no backend set anywhere
NoSources == [cli |-> "", file |-> "", project |-> "", global |-> ""]

CfgDefault == [stored |-> ProjectDefaults, file |-> NoSbox, eff |-> [st |-> "none"],
               src |-> NoSources, resolved |-> "unresolved"]

NoCall == [fn |-> "none"]

NotRun == [st |-> "none"]

PrepIdle == [faults |-> FALSE, warn |-> {}]

NoCmd == [name |-> "none", recreate |-> FALSE, rm |-> FALSE, all |-> FALSE]

Init ==
    /\ backend \in {BackendSandbox, BackendContainer}
    /\ unit = [st |-> "absent", id |-> 0]
    /\ home = {}
    /\ volume = FALSE
    /\ image = FALSE
    /\ manifest = NoFile
    /\ envFile = NoFile
    /\ cache = NoDir
    /\ devBinary = FALSE
    /\ hostCfg = 0
    /\ pc = [p \in Procs |-> "idle"]
    /\ cmd = [p \in Procs |-> NoCmd]
    /\ found = [p \in Procs |-> Nil]
    /\ res = [p \in Procs |-> "none"]
    /\ trace = [p \in Procs |-> <<>>]
    /\ budget = 0
    /\ cause = [cmd |-> "none", op |-> "none"]
    /\ lost = {}
    /\ projectData = TRUE
    /\ call = NoCall
    /\ prep = PrepIdle
    /\ cfg = CfgDefault
    /\ runner = RunnerIdle

(***************************************************************************)
(* The external tool, as the orchestrator's invocations observe it          *)
(***************************************************************************)
\* sandbox ID is the sandbox name (sandbox.go:587); a container has its own ID
UnitId == IF backend = BackendSandbox THEN 0 ELSE unit.id

\* `docker sandbox ls` / `docker ps -a --filter name=...`; ok = the listing succeeded
ListDockerSandboxes(ok) ==
    IF ok /\ Exists(unit) THEN [st |-> unit.st, id |-> UnitId] ELSE Nil

\* a command that names the unit by ID reaches it only while that unit exists
Targets(f) == Exists(unit) /\ f.id = UnitId

(***************************************************************************)
(* Lookups                                                                  *)
(***************************************************************************)
\* by name; a failed listing is (nil, err) and callers treat it as not found
FindDockerSandboxByName(ok) == ListDockerSandboxes(ok)

\* by name, then by recorded workspace
FindDockerSandbox(ok) == ListDockerSandboxes(ok)

\* ContainerBackend.Find: a failed `docker ps` is (nil, nil)
Find(ok) == ListDockerSandboxes(ok)

\* a lookup that does not filter on the status
FindRunning_AnyState(ok) ==
    IF backend = BackendSandbox THEN FindDockerSandbox(ok) ELSE Find(ok)

\* FindRunning: only a unit whose status is "running"
FindRunning(ok) ==
    LET info == IF backend = BackendSandbox THEN FindDockerSandbox(ok) ELSE Find(ok)
    IN IF info.st = "running" THEN info ELSE Nil

\* SandboxBackend.FindRunning propagates the listing error, ContainerBackend.Find hides it
FindRunningFails(ok) == backend = BackendSandbox /\ ~ok

(***************************************************************************)
(* Error texts                                                              *)
(***************************************************************************)
\* err.Error() of CreateDockerSandbox: the tool's stderr goes to the terminal
\* (cmd.Stderr = os.Stderr), the error wraps only the exit status
CreateErrorText(stderr) == <<"docker sandbox create failed", "exit status 1">>

Contains(text, phrase) == \E i \in 1..Len(text) : text[i] = phrase

\* the operations invocation p has performed in its current command
HasOp(p, op) == Contains(trace[p], op)

(***************************************************************************)
(* Bookkeeping shared by the actions                                        *)
(***************************************************************************)
Log(p, op) == trace' = [trace EXCEPT ![p] = Append(@, op)]

Finish(p, r) ==
    /\ pc' = [pc EXCEPT ![p] = "idle"]
    /\ res' = [res EXCEPT ![p] = r]

Goto(p, l) ==
    /\ pc' = [pc EXCEPT ![p] = l]
    /\ UNCHANGED res

\* the runner a starting unit launches (CMD of the template image)
RunnerStart == [RunnerIdle EXCEPT !.pc = "start"]

Commands ==
    {[name |-> "run", recreate |-> r, rm |-> FALSE, all |-> FALSE] : r \in BOOLEAN}
    \cup {[name |-> "stop", recreate |-> FALSE, rm |-> r, all |-> a] : r, a \in BOOLEAN}

\* a user starts `sbox run [--recreate]` or `sbox stop [--rm] [--all]`
StartCmd(p) ==
    /\ pc[p] = "idle"
    /\ budget < MaxCmds
    /\ \E c \in Commands :
        /\ cmd' = [cmd EXCEPT ![p] = c]
        /\ pc' = [pc EXCEPT ![p] =
                    IF c.name = "stop" THEN "stopE"
                    ELSE IF backend = BackendSandbox THEN "runE" ELSE "prepare"]
    /\ budget' = budget + 1
    /\ found' = [found EXCEPT ![p] = Nil]
    /\ res' = [res EXCEPT ![p] = "none"]
    /\ trace' = [trace EXCEPT ![p] = <<>>]
    /\ UNCHANGED <<call, cfg, prep, projectData, backend, unit, home, volume, image, manifest, envFile, cache,
                   devBinary, hostCfg, cause, lost, runner>>

(***************************************************************************)
(* Configuration merge: sbox.yaml into the project configuration           *)
(***************************************************************************)
\* the members of a list
Elems(q) == {q[i] : i \in 1..Len(q)}

RECURSIVE AppendNew(_, _)
\* append the entries of add that are not in the list yet, in order
AppendNew(list, add) ==
    IF add = <<>> THEN list
    ELSE AppendNew(IF Head(add) \in Elems(list) THEN list ELSE Append(list, Head(add)),
                   Tail(add))

\* ParseVolumeSpec: "hostpath:containerpath[:ro]", a spec given by its parts
ParseVolumeSpec(spec) ==
    IF Len(spec) = 2 THEN [ok |-> TRUE, host |-> spec[1], dest |-> spec[2], ro |-> FALSE]
    ELSE IF Len(spec) = 3 /\ spec[3] = "ro"
         THEN [ok |-> TRUE, host |-> spec[1], dest |-> spec[2], ro |-> TRUE]
         ELSE [ok |-> FALSE]

\* ResolveVolumePath: a path starting with ./ is joined to the directory of sbox.yaml
ResolveVolumePath(host) == IF host = "./data" THEN "/repo/data" ELSE host

\* the volume spec rebuilt with the resolved host path
ResolvedSpec(spec) ==
    LET v == ParseVolumeSpec(spec)
    IN IF v.ro THEN <<ResolveVolumePath(v.host), v.dest, "ro">>
       ELSE <<ResolveVolumePath(v.host), v.dest>>

RECURSIVE ResolvedSpecs(_)
ResolvedSpecs(specs) ==
    IF specs = <<>> THEN <<>>
    ELSE <<ResolvedSpec(Head(specs))>> \o ResolvedSpecs(Tail(specs))

\* the names of a list of environment entries
EnvNames(envs) == {envs[i][1] : i \in 1..Len(envs)}

RECURSIVE MergeProjectConfigEnvs(_, _)
\* the environment entries of the merge: the project's entries, then the
\* entries of sbox.yaml whose name the project does not set
MergeProjectConfigEnvs(project, file) ==
    IF file = <<>> THEN project
    ELSE MergeProjectConfigEnvs(IF Head(file)[1] \in EnvNames(project) THEN project
                                ELSE Append(project, Head(file)),
                                Tail(file))

\* a merge in which the project configuration's socket policy wins
MergeDockerSocket_ProjectWins(project, file) == IF project # "" THEN project ELSE file

\* MergeProjectConfig: docker_socket of sbox.yaml overrides the project's, if set
MergeDockerSocket(project, file) == IF file # "" THEN file ELSE project

\* MergeProjectConfig(projectConfig, sboxFile)
MergeProjectConfig(projectConfig, sboxFile) ==
    IF sboxFile = NoSbox THEN [st |-> "ok", config |-> projectConfig]
    ELSE IF \E i \in 1..Len(sboxFile.volumes) : ~ParseVolumeSpec(sboxFile.volumes[i]).ok
    THEN [st |-> "err_merge"]
    ELSE [st |-> "ok",
          config |-> [profiles |-> AppendNew(projectConfig.profiles, sboxFile.profiles),
                      volumes |-> projectConfig.volumes \o ResolvedSpecs(sboxFile.volumes),
                      socket |-> MergeDockerSocket(projectConfig.socket, sboxFile.socket),
                      envs |-> MergeProjectConfigEnvs(projectConfig.envs, sboxFile.envs)]]

\* runE: projectConfig is loaded, replaced by its merge with sbox.yaml and,
\* before the sandbox is run, saved to register the project (a failed save is
\* only warned about)
RunE_ProjectConfig(c, saved) ==
    LET merged == MergeProjectConfig(c.stored, c.file)
    IN IF merged.st = "ok" /\ saved
       THEN [c EXCEPT !.eff = merged, !.stored = merged.config]
       ELSE [c EXCEPT !.eff = merged]

(***************************************************************************)
(* sbox run                                                                 *)
(***************************************************************************)
\* the command line a cause is attributed to
CmdName(c) == IF c.name = "run" /\ c.recreate THEN "run --recreate" ELSE c.name

\* a run that removes the existing sandbox whatever its flags
Recreate_Always(c) == TRUE

\* runE: only --recreate removes the existing sandbox
Recreate(c) == c.recreate

\* removal of the unit by `docker sandbox rm` / `docker rm`
RemoveUnit(c) ==
    /\ unit' = [unit EXCEPT !.st = "removed"]
    /\ home' = IF backend = BackendSandbox THEN {} ELSE home
    /\ lost' = home
    /\ cause' = [cmd |-> c, op |-> "rm"]
    /\ runner' = RunnerIdle

\* runE: look the sandbox up by name, then by workspace
RunE_Lookup(p) ==
    /\ pc[p] = "runE"
    /\ \E ok \in BOOLEAN :
        found' = [found EXCEPT ![p] =
                    IF FindDockerSandboxByName(ok) # Nil
                    THEN FindDockerSandboxByName(ok) ELSE FindDockerSandbox(ok)]
    /\ Log(p, "ls")
    /\ Goto(p, "runE_recreate")
    /\ UNCHANGED <<call, cfg, prep, projectData, backend, unit, home, volume, image, manifest, envFile, cache,
                   devBinary, hostCfg, cmd, budget, cause, lost, runner>>

\* runE: --recreate removes the existing sandbox; then the project config is saved
RunE_Recreate(p) ==
    /\ pc[p] = "runE_recreate"
    /\ IF Recreate(cmd[p]) /\ found[p] # Nil
       THEN \* RemoveDockerSandbox(existingSandbox.ID); a failure is fatal
            IF Targets(found[p])
            THEN /\ RemoveUnit(CmdName(cmd[p]))
                 /\ Log(p, "rm")
                 /\ Goto(p, "prepare")
            ELSE /\ Log(p, "rm")
                 /\ Finish(p, "err_remove")
                 /\ UNCHANGED <<unit, home, lost, cause, runner>>
       ELSE IF Recreate(cmd[p]) /\ Exists(unit)
            THEN \* RemoveDockerSandboxByName: the lookup missed it, the removal does not
                 /\ RemoveUnit(CmdName(cmd[p]))
                 /\ Log(p, "rm")
                 /\ Goto(p, "prepare")
            ELSE /\ IF Recreate(cmd[p]) THEN Log(p, "rm") ELSE UNCHANGED trace
                 /\ Goto(p, "prepare")
                 /\ UNCHANGED <<unit, home, lost, cause, runner>>
    \* SaveProjectConfig registers the project; a failure is only warned about
    /\ \E saved \in BOOLEAN :
        /\ projectData' = (projectData \/ (saved /\ pc'[p] = "prepare"))
        /\ cfg' = RunE_ProjectConfig(cfg, saved /\ pc'[p] = "prepare")
    /\ UNCHANGED <<call, prep, backend, volume, image, manifest, envFile, cache,
                   devBinary, hostCfg, cmd, found, budget>>

\* PrepareSboxDirectory, step by step
PrepareSteps == <<"mkdir", "context", "plugins", "agents", "manifest", "env">>

\* the optional steps: prepareCLAUDEMD, preparePlugins, prepareAgents
OptionalSteps == {"context", "plugins", "agents"}

\* the steps that can fail: any step, the optional ones only on a host with faults
PrepareFailures ==
    SUBSET ({"mkdir", "manifest", "env"} \cup (IF prep.faults THEN OptionalSteps ELSE {}))

\* a preparation that gives up when the plugins cannot be copied
Fatal_Plugins(step) == step \in {"mkdir", "plugins", "manifest", "env"}

\* PrepareSboxDirectory returns the error of this step; the others are warned about
Fatal(step) == step \in {"mkdir", "manifest", "env"}

\* the step whose error PrepareSboxDirectory returns, "none" when it returns nil
PrepareReturn(failed) ==
    LET bad == {i \in 1..Len(PrepareSteps) : PrepareSteps[i] \in failed /\ Fatal(PrepareSteps[i])}
    IN IF bad = {} THEN "none"
       ELSE PrepareSteps[CHOOSE i \in bad : \A j \in bad : i <= j]

\* the steps PrepareSboxDirectory runs before it returns at step fail
StepsBefore(fail) ==
    {PrepareSteps[i] : i \in {i \in 1..Len(PrepareSteps) :
        fail = "none" \/ \E j \in 1..Len(PrepareSteps) : PrepareSteps[j] = fail /\ i < j}}

\* the error `run` returns when the preparation fails at a step
PrepareError(fail) ==
    CASE fail = "mkdir" -> "err_prepare_mkdir"
      [] fail = "manifest" -> "err_prepare_manifest"
      [] fail = "env" -> "err_prepare_env"
      [] OTHER -> "err_prepare"

\* a preparation that keeps the files a previous run left
PrepareSboxDirectory_KeepExisting(fail) ==
    /\ manifest' = IF "manifest" \notin StepsBefore(fail) \/ manifest # NoFile THEN manifest
                   ELSE File(EntrypointConfigVersion)
    /\ envFile' = IF fail = "none" /\ envFile = NoFile THEN File(hostCfg) ELSE envFile

\* PrepareSboxDirectory returning at step fail ("none": it returns nil)
PrepareSboxDirectory(fail) ==
    /\ manifest' = IF "manifest" \in StepsBefore(fail)
                   THEN File(EntrypointConfigVersion) ELSE manifest
    /\ envFile' = IF fail = "none" THEN File(hostCfg) ELSE envFile

\* Backend.Run, first part: re-materialize .sbox every time
Run_Prepare(p) ==
    /\ pc[p] = "prepare"
    /\ \E failed \in PrepareFailures :
        LET fail == PrepareReturn(failed)
        IN /\ PrepareSboxDirectory(fail)
           /\ prep' = [prep EXCEPT !.warn = failed \cap OptionalSteps \cap StepsBefore(fail)]
           /\ IF fail = "none"
              THEN Goto(p, "lookup") /\ Log(p, "prepare")
              ELSE Finish(p, PrepareError(fail)) /\ Log(p, "prepare_failed")
    /\ UNCHANGED <<call, cfg, projectData, backend, unit, home, volume, image, cache, devBinary, hostCfg,
                   cmd, found, budget, cause, lost, runner>>

\* a Run that builds and creates whatever the lookup returned
AfterLookup_AlwaysBuild(existing) == "build"

\* Backend.Run: what follows the lookup.  Only a missing unit is built and
\* created; the sandbox backend runs an existing one, the container backend
\* attaches to a running one and starts a stopped one
AfterLookup(existing) ==
    IF existing = Nil THEN "build"
    ELSE IF backend = BackendSandbox THEN "start"
    ELSE IF existing.st = "running" THEN "attach" ELSE "start"

\* Backend.Run: does the unit exist?
Run_Lookup(p) ==
    /\ pc[p] = "lookup"
    /\ \E ok \in BOOLEAN :
        LET existing == IF backend = BackendSandbox
                        THEN FindDockerSandboxByName(ok) ELSE Find(ok)
        IN /\ found' = [found EXCEPT ![p] = existing]
           /\ Goto(p, AfterLookup(existing))
           /\ Log(p, "lookup")
    /\ UNCHANGED <<call, cfg, prep, projectData, backend, unit, home, volume, image, manifest, envFile, cache,
                   devBinary, hostCfg, cmd, budget, cause, lost, runner>>

\* a run that never forces the build
ForceRebuild_Never(c) == FALSE

\* runE: RunOptions.ForceRebuild is the --recreate flag
ForceRebuild(c) == c.recreate

\* TemplateBuilder.Build(forceRebuild): reuse the tagged image unless forced;
\* "docker build" marks the invocation of the build tool
Run_Build(p) ==
    /\ pc[p] = "build"
    /\ IF image /\ ~ForceRebuild(cmd[p])
       THEN /\ Goto(p, "create")
            /\ UNCHANGED image
            /\ Log(p, "build")
       ELSE /\ \E ok \in BOOLEAN :
                IF ok THEN Goto(p, "create") /\ image' = TRUE
                ELSE Finish(p, "err_build") /\ UNCHANGED image
            /\ trace' = [trace EXCEPT ![p] = @ \o <<"build", "docker build">>]
    /\ UNCHANGED <<call, cfg, prep, projectData, backend, unit, home, volume, manifest, envFile, cache, devBinary,
                   hostCfg, cmd, found, budget, cause, lost, runner>>

\* SandboxBackend.Run: CreateDockerSandbox, then the "already exists" check on
\* the returned error's text
Sandbox_Create(p) ==
    /\ pc[p] = "create"
    /\ backend = BackendSandbox
    /\ trace' = [trace EXCEPT ![p] =
                   @ \o (IF Exists(unit) THEN <<"create", "already_exists">>
                         ELSE <<"create">>)]
    /\ IF Exists(unit)
       THEN \* the tool rejects the duplicate name: stderr says "already exists"
            /\ IF Contains(CreateErrorText("already exists"), "already exists")
               THEN Goto(p, "start")
               ELSE Finish(p, "err_create")
            /\ UNCHANGED <<unit, home, cause>>
       ELSE \E ok \in BOOLEAN :
            IF ok
            THEN /\ unit' = [st |-> "stopped", id |-> unit.id + 1]
                 /\ home' = {}
                 /\ cause' = [cmd |-> cmd[p].name, op |-> "create"]
                 /\ Goto(p, "start")
            ELSE /\ IF Contains(CreateErrorText("other"), "already exists")
                    THEN Goto(p, "start")
                    ELSE Finish(p, "err_create")
                 /\ UNCHANGED <<unit, home, cause>>
    /\ UNCHANGED <<call, cfg, prep, projectData, backend, volume, image, manifest, envFile, cache, devBinary,
                   hostCfg, cmd, found, budget, lost, runner>>

\* ContainerBackend.Run: ensureVolume, then `docker run -it --name <name>`,
\* which creates and starts the container in one invocation
Container_Create(p) ==
    /\ pc[p] = "create"
    /\ backend = BackendContainer
    /\ trace' = [trace EXCEPT ![p] =
                   @ \o (IF Exists(unit) THEN <<"create", "already_exists">>
                         ELSE <<"create">>)]
    /\ volume' = TRUE
    /\ IF Exists(unit)
       THEN \* name conflict: `docker run` fails and the error is returned
            /\ Finish(p, "err_run")
            /\ UNCHANGED <<unit, cause, runner>>
       ELSE /\ unit' = [st |-> "running", id |-> unit.id + 1]
            /\ cause' = [cmd |-> cmd[p].name, op |-> "create"]
            /\ runner' = RunnerStart
            /\ Goto(p, "attached")
    /\ UNCHANGED <<call, cfg, prep, projectData, backend, home, image, manifest, envFile, cache, devBinary,
                   hostCfg, cmd, found, budget, lost>>

\* `docker sandbox run <name>` / `docker start -ai <name>`
Run_Start(p) ==
    /\ pc[p] = "start"
    /\ Log(p, "start")
    /\ IF Exists(unit)
       THEN /\ unit' = [unit EXCEPT !.st = "running"]
            /\ cause' = IF unit.st = "running" THEN cause
                        ELSE [cmd |-> cmd[p].name, op |-> "start"]
            /\ runner' = IF backend = BackendContainer /\ unit.st = "running"
                         THEN runner ELSE RunnerStart
            /\ Goto(p, "attached")
       ELSE /\ Finish(p, "err_start")
            /\ UNCHANGED <<unit, cause, runner>>
    /\ UNCHANGED <<call, cfg, prep, projectData, backend, home, volume, image, manifest, envFile, cache, devBinary,
                   hostCfg, cmd, found, budget, lost>>

\* ContainerBackend.attachContainer: `docker attach <name>`
Container_Attach(p) ==
    /\ pc[p] = "attach"
    /\ backend = BackendContainer
    /\ Log(p, "attach")
    /\ IF unit.st = "running"
       THEN Goto(p, "attached")
       ELSE Finish(p, "err_attach")
    /\ UNCHANGED <<call, cfg, prep, projectData, backend, unit, home, volume, image, manifest, envFile, cache,
                   devBinary, hostCfg, cmd, found, budget, cause, lost, runner>>

\* the interactive session ends and cmd.Run() returns; what the external tool
\* does to the unit when its session ends is not in the source and is left out
Run_Return(p) ==
    /\ pc[p] = "attached"
    /\ Finish(p, "ok")
    /\ UNCHANGED <<call, cfg, prep, projectData, backend, unit, home, volume, image, manifest, envFile, cache,
                   devBinary, hostCfg, cmd, found, trace, budget, cause, lost, runner>>

(***************************************************************************)
(* sbox stop                                                                *)
(***************************************************************************)
\* stopE: --all requires --rm; --all asks for confirmation
StopE_Check(p) ==
    /\ pc[p] = "stopE"
    /\ IF cmd[p].all /\ ~cmd[p].rm
       THEN Finish(p, "err_flags")
       ELSE IF cmd[p].all
            THEN \E answeredYes \in BOOLEAN :
                 IF answeredYes THEN Goto(p, "stop_find") ELSE Finish(p, "aborted")
            ELSE Goto(p, IF cmd[p].rm THEN "stop_find" ELSE "saveCache")
    /\ UNCHANGED <<call, cfg, prep, projectData, backend, unit, home, volume, image, manifest, envFile, cache,
                   devBinary, hostCfg, cmd, found, trace, budget, cause, lost, runner>>

\* SaveClaudeCache returns an error: no running unit was found, or rsync failed
SaveClaudeCacheFails(lookupOk, rsyncOk) ==
    FindRunningFails(lookupOk) \/ FindRunning(lookupOk) = Nil \/ ~rsyncOk

\* a save that copies without deleting: rsync -a
SaveClaudeCache_NoDelete(lookupOk, rsyncOk) ==
    IF SaveClaudeCacheFails(lookupOk, rsyncOk)
    THEN IF cache = NoDir THEN Dir({}) ELSE cache
    ELSE Dir(home \cup {e \in cache.v : e[1] \notin NamesOf(home)})

\* SaveClaudeCache: rsync -a --delete <state-home>/ <cache>/ inside the running unit
SaveClaudeCache(lookupOk, rsyncOk) ==
    IF SaveClaudeCacheFails(lookupOk, rsyncOk)
    THEN IF cache = NoDir THEN Dir({}) ELSE cache
    ELSE Dir(home)

\* Backend.SaveCache: a no-op for the container backend
SaveCache(lookupOk, rsyncOk) ==
    IF backend = BackendSandbox THEN SaveClaudeCache(lookupOk, rsyncOk) ELSE cache

\* Backend.SaveCache returns an error; stopE logs it and goes on
SaveCacheFails(lookupOk, rsyncOk) ==
    backend = BackendSandbox /\ SaveClaudeCacheFails(lookupOk, rsyncOk)

\* stopE: save the cache before stopping, unless --rm is set
StopE_SaveCache(p) ==
    /\ pc[p] = "saveCache"
    /\ \E lookupOk, rsyncOk \in BOOLEAN :
        /\ cache' = SaveCache(lookupOk, rsyncOk)
        /\ trace' = [trace EXCEPT ![p] =
                       @ \o (IF SaveCacheFails(lookupOk, rsyncOk)
                             THEN <<"SaveCache", "SaveCache_failed">>
                             ELSE <<"SaveCache">>)]
    /\ Goto(p, "stop_find")
    /\ UNCHANGED <<call, cfg, prep, projectData, backend, unit, home, volume, image, manifest, envFile,
                   devBinary, hostCfg, cmd, found, budget, cause, lost, runner>>

\* Backend.Stop: FindRunning; nothing running means (nil, nil)
Stop_Find(p) ==
    /\ pc[p] = "stop_find"
    /\ trace' = [trace EXCEPT ![p] =
                   @ \o <<IF unit.st = "running" THEN "Stop/running" ELSE "Stop/notrunning",
                          "lookup">>]
    /\ \E ok \in BOOLEAN :
        IF FindRunningFails(ok)
        THEN Finish(p, "err_find") /\ UNCHANGED found
        ELSE /\ found' = [found EXCEPT ![p] = FindRunning(ok)]
             /\ IF FindRunning(ok) # Nil THEN Goto(p, "docker_stop")
                ELSE IF cmd[p].rm THEN Goto(p, "cleanup")
                ELSE Finish(p, "ok")
    /\ UNCHANGED <<call, cfg, prep, projectData, backend, unit, home, volume, image, manifest, envFile, cache,
                   devBinary, hostCfg, cmd, budget, cause, lost, runner>>

\* Backend.Stop: `docker sandbox stop <id>` / `docker stop <id>`
Stop_Stop(p) ==
    /\ pc[p] = "docker_stop"
    /\ Log(p, "stop")
    /\ IF Targets(found[p])
       THEN /\ unit' = [unit EXCEPT !.st = "stopped"]
            /\ IF unit.st = "running"
               THEN /\ cause' = [cmd |-> cmd[p].name, op |-> "stop"]
                    /\ lost' = home
                    /\ runner' = RunnerIdle
               ELSE UNCHANGED <<cause, lost, runner>>
            /\ IF cmd[p].rm THEN Goto(p, "docker_rm") ELSE Finish(p, "ok")
       ELSE /\ Finish(p, "err_stop")
            /\ UNCHANGED <<unit, cause, lost, runner>>
    /\ UNCHANGED <<call, cfg, prep, projectData, backend, home, volume, image, manifest, envFile, cache,
                   devBinary, hostCfg, cmd, found, budget>>

\* Backend.Stop with remove: `docker sandbox rm <id>` / `docker rm <id>`
\* (`docker rm` refuses a running container)
Stop_Rm(p) ==
    /\ pc[p] = "docker_rm"
    /\ Log(p, "rm")
    /\ IF Targets(found[p]) /\ (backend = BackendSandbox \/ unit.st = "stopped")
       THEN /\ RemoveUnit(CmdName(cmd[p]))
            /\ Goto(p, "cleanup")
       ELSE /\ Finish(p, "err_rm")
            /\ UNCHANGED <<unit, home, lost, cause, runner>>
    /\ UNCHANGED <<call, cfg, prep, projectData, backend, volume, image, manifest, envFile, cache,
                   devBinary, hostCfg, cmd, found, budget>>

\* a teardown that deletes the project configuration on every --rm
RemoveAll_WithRm(c) == c.rm

\* stopE: removeAll, the --all flag
RemoveAll(c) == c.all

\* ContainerBackend.RemoveVolume: `docker volume rm` fails while a container uses it
RemoveVolume == volume /\ ~Exists(unit)

\* stopE with --rm: Backend.Cleanup removes .sbox (and the container backend's volume)
StopE_Cleanup(p) ==
    /\ pc[p] = "cleanup"
    /\ Log(p, "cleanup")
    /\ manifest' = NoFile
    /\ envFile' = NoFile
    /\ cache' = NoDir
    /\ devBinary' = FALSE
    /\ IF backend = BackendContainer /\ RemoveVolume
       THEN volume' = FALSE /\ home' = {}
       ELSE UNCHANGED <<volume, home>>
    /\ IF RemoveAll(cmd[p]) THEN Goto(p, "removeData") ELSE Finish(p, "ok")
    /\ UNCHANGED <<call, cfg, prep, projectData, backend, unit, image, hostCfg, cmd, found, budget, cause,
                   lost, runner>>

\* stopE: RemoveProjectData deletes <SboxDataDir>/projects/<hash>; a failure is fatal
StopE_RemoveProjectData(p) ==
    /\ pc[p] = "removeData"
    /\ \E ok \in BOOLEAN :
        IF ok
        THEN projectData' = FALSE /\ Finish(p, "ok")
        ELSE UNCHANGED projectData /\ Finish(p, "err_remove_data")
    /\ UNCHANGED <<call, cfg, prep, backend, unit, home, volume, image, manifest, envFile, cache,
                   devBinary, hostCfg, cmd, found, trace, budget, cause, lost, runner>>

(***************************************************************************)
(* Environment                                                              *)
(***************************************************************************)
\* the agent running in the unit writes credentials / session history
AgentWrite ==
    /\ unit.st = "running"
    /\ runner.pc = "agent"
    /\ \E i \in Items : i \notin NamesOf(home) /\ home' = home \cup {Entry(i)}
    /\ UNCHANGED <<call, cfg, prep, projectData, backend, unit, volume, image, manifest, envFile, cache, devBinary,
                   hostCfg, pc, cmd, found, res, trace, budget, cause, lost, runner>>

\* the user edits the host-side configuration between invocations
HostConfigChange ==
    /\ \A p \in Procs : pc[p] = "idle"
    /\ hostCfg' = 1 - hostCfg
    /\ UNCHANGED <<call, cfg, prep, projectData, backend, unit, home, volume, image, manifest, envFile, cache,
                   devBinary, pc, cmd, found, res, trace, budget, cause, lost, runner>>

(***************************************************************************)
(* The sandbox-side runner: RunEntrypoint                                   *)
(***************************************************************************)
RStep(name) == Append(runner.steps, name)

\* a reader without the forward-compatibility check
ReadEntrypointConfig_NoVersionCheck(m) ==
    IF m = NoFile THEN "err_not_exist"
    ELSE IF m.v = 0 THEN "err_missing_version"
    ELSE "ok"

\* ReadEntrypointConfig: what reading .sbox/entrypoint.yaml returns
ReadEntrypointConfig(m) ==
    IF m = NoFile THEN "err_not_exist"
    ELSE IF m.v = 0 THEN "err_missing_version"
    ELSE IF m.v > EntrypointConfigVersion THEN "err_newer_version"
    ELSE "ok"

\* a restore that mirrors the cache: rsync -a --delete
restoreClaudeCache_Delete(c, h, rsyncOk) ==
    IF c = NoDir \/ c.v = {} \/ ~rsyncOk THEN h ELSE c.v

\* restoreClaudeCache: rsync -a <cache>/ <state-home>/ (no --delete); an entry
\* of the cache replaces its counterpart, the other entries stay
restoreClaudeCache(c, h, rsyncOk) ==
    IF c = NoDir \/ c.v = {} \/ ~rsyncOk THEN h
    ELSE c.v \cup {e \in h : e[1] \notin NamesOf(c.v)}

\* a runner that launches the agent without loading the environment file
StepAfter_SkipEnv(s) ==
    CASE s = "read" -> "restore"
      [] s = "restore" -> "md"
      [] s = "md" -> "agents"
      [] s = "agents" -> "exec"
      [] OTHER -> "failed"

\* RunEntrypoint: the step that follows a completed step
StepAfter(s) ==
    CASE s = "read" -> "restore"
      [] s = "restore" -> "md"
      [] s = "md" -> "agents"
      [] s = "agents" -> "env"
      [] s = "env" -> "exec"
      [] OTHER -> "failed"

\* execClaude(args, nil): launch without setup and without plugin flags
ExecDirect == [runner EXCEPT !.pc = "exec", !.plugins = FALSE]

\* ReadWorkspacePath: no workspace means launching the agent directly
R_Workspace ==
    /\ runner.pc = "start"
    /\ runner' = IF runner.ws THEN [runner EXCEPT !.pc = "dev"] ELSE ExecDirect
    /\ UNCHANGED <<cfg, prep, projectData, home, lifecycleVars>>

\* a runner that execs the override whenever it is there
HandsOff_IgnoreMarker(marker, present) == present

\* maybeExecDevBinary: exec .sbox/sbox-dev when it exists, unless
\* SBOX_DEV_ENTRYPOINT=1 says this process is the override itself
HandsOff(marker, present) == ~marker /\ present

\* maybeExecDevBinary: hand off to .sbox/sbox-dev unless already running as it
R_DevBinary ==
    /\ runner.pc = "dev"
    /\ IF ~HandsOff(runner.marker, devBinary)
       THEN runner' = [runner EXCEPT !.pc = "read"]
       ELSE \E ok \in BOOLEAN :
            runner' = IF ok
                      THEN [runner EXCEPT !.pc = "start", !.marker = TRUE,
                                          !.steps = RStep("handoff")]
                      ELSE [runner EXCEPT !.pc = "failed", !.out = "err_dev"]
    /\ UNCHANGED <<cfg, prep, projectData, home, lifecycleVars>>

\* a runner for which a missing manifest is an error like any other
AfterRead_NoCompat(r) ==
    IF r = "ok" THEN [runner EXCEPT !.pc = StepAfter("read")]
    ELSE [runner EXCEPT !.pc = "failed", !.out = r]

\* RunEntrypoint on the result of ReadEntrypointConfig: a missing manifest
\* (os.IsNotExist) launches the agent directly, any other error is fatal
AfterRead(r) ==
    IF r = "ok" THEN [runner EXCEPT !.pc = StepAfter("read")]
    ELSE IF r = "err_not_exist" THEN ExecDirect
    ELSE [runner EXCEPT !.pc = "failed", !.out = r]

\* read the manifest: absent -> launch directly; unreadable or newer -> fatal
R_ReadConfig ==
    /\ runner.pc = "read"
    /\ runner' = AfterRead(ReadEntrypointConfig(manifest))
    /\ UNCHANGED <<cfg, prep, projectData, home, lifecycleVars>>

\* the failures of best-effort steps that can happen in this unit
Skippable(kinds) == IF runner.faults THEN SUBSET kinds ELSE {{}}

\* restoreClaudeCache ran rsync (the cache exists and is non-empty) and it failed
RestoreFails(c, rsyncOk) == c # NoDir /\ c.v # {} /\ ~rsyncOk

\* restore the cached state; a failure is logged and skipped
R_Restore ==
    /\ runner.pc = "restore"
    /\ \E rsyncOk \in BOOLEAN :
        /\ home' = restoreClaudeCache(cache, home, rsyncOk)
        /\ runner' = [runner EXCEPT !.pc = StepAfter("restore"),
                                    !.steps = RStep("restore"),
                                    !.warn = IF RestoreFails(cache, rsyncOk)
                                             THEN @ \cup {"restore"} ELSE @]
    /\ UNCHANGED lifecycleVars

\* setupCLAUDEMD: a failure is logged and skipped
R_ClaudeMD ==
    /\ runner.pc = "md"
    /\ \E failed \in Skippable({"context"}) :
        runner' = [runner EXCEPT !.pc = StepAfter("md"), !.steps = RStep("context"),
                                 !.warn = @ \cup failed]
    /\ UNCHANGED <<cfg, prep, projectData, home, lifecycleVars>>

\* setupPlugins (no-op) and setupAgents: an agent that cannot be copied is
\* skipped, an agents directory that cannot be created is fatal
R_Agents ==
    /\ runner.pc = "agents"
    /\ \E ok \in BOOLEAN, failed \in Skippable({"agents"}) :
        runner' = IF ok
                  THEN [runner EXCEPT !.pc = StepAfter("agents"), !.steps = RStep("agents"),
                                      !.warn = @ \cup failed]
                  ELSE [runner EXCEPT !.pc = "failed", !.out = "err_agents",
                                      !.steps = RStep("agents")]
    /\ UNCHANGED <<cfg, prep, projectData, home, lifecycleVars>>

\* loadEntrypointEnv: a missing env file is fine, a read error is fatal, a
\* persistent env file that cannot be written is skipped; then the plugin
\* directories are collected, a missing one is skipped
R_LoadEnv ==
    /\ runner.pc = "env"
    /\ \E ok \in BOOLEAN, failed \in Skippable({"persist_env", "plugins"}) :
        runner' = IF ok \/ envFile = NoFile
                  THEN [runner EXCEPT !.pc = StepAfter("env"), !.plugins = TRUE,
                                      !.steps = RStep("env"),
                                      !.warn = @ \cup IF envFile = NoFile
                                                      THEN failed \ {"persist_env"}
                                                      ELSE failed]
                  ELSE [runner EXCEPT !.pc = "failed", !.out = "err_env",
                                      !.steps = RStep("env")]
    /\ UNCHANGED <<cfg, prep, projectData, home, lifecycleVars>>

\* execClaude: findClaude, then syscall.Exec replaces the runner by the agent
R_Exec ==
    /\ runner.pc = "exec"
    /\ runner' = IF runner.claude
                 THEN [runner EXCEPT !.pc = "agent", !.out = "launched",
                                     !.steps = RStep("exec")]
                 ELSE [runner EXCEPT !.pc = "failed", !.out = "err_claude"]
    /\ UNCHANGED <<cfg, prep, projectData, home, lifecycleVars>>

RunnerNext ==
    \/ R_Workspace
    \/ R_DevBinary
    \/ R_ReadConfig
    \/ R_Restore
    \/ R_ClaudeMD
    \/ R_Agents
    \/ R_LoadEnv
    \/ R_Exec

(***************************************************************************)
(* Backend resolution                                                       *)
(***************************************************************************)
\* const DefaultBackend = BackendSandbox
DefaultBackend == BackendSandbox

\* a nil *SboxFileLocation, *ProjectConfig or *Config (or a nil sboxFile.Config)
NilPtr == "nil"

\* a resolution that asks the project configuration before sbox.yaml
ResolveBackendType_ProjectFirst(cliBackend, sboxFile, projectConfig, config) ==
    IF cliBackend # "" THEN cliBackend
    ELSE IF projectConfig # NilPtr /\ projectConfig # "" THEN projectConfig
    ELSE IF sboxFile # NilPtr /\ sboxFile # "" THEN sboxFile
    ELSE IF config # NilPtr /\ config # "" THEN config
    ELSE DefaultBackend

\* ResolveBackendType; each source is given by the backend it sets ("": none)
ResolveBackendType(cliBackend, sboxFile, projectConfig, config) ==
    IF cliBackend # "" THEN cliBackend
    ELSE IF sboxFile # NilPtr /\ sboxFile # "" THEN sboxFile
    ELSE IF projectConfig # NilPtr /\ projectConfig # "" THEN projectConfig
    ELSE IF config # NilPtr /\ config # "" THEN config
    ELSE DefaultBackend

\* the backend type an invocation resolves from the current sources
Resolve(s) == ResolveBackendType(s.cli, s.file, s.project, s.global)

\* an invocation resolves its backend
ResolveBackend ==
    /\ cfg.resolved = "unresolved"
    /\ cfg' = [cfg EXCEPT !.resolved = Resolve(cfg.src)]
    /\ UNCHANGED <<home, runner, lifecycleVarsButCfg>>

\* the user removes the setting of one source (drops the flag, deletes the
\* field from a file) and the next invocation resolves again
UnsetSource ==
    /\ cfg.resolved # "unresolved"
    /\ \E k \in DOMAIN cfg.src :
        /\ cfg.src[k] \notin {"", NilPtr}
        /\ LET s == [cfg.src EXCEPT ![k] = ""]
           IN cfg' = [cfg EXCEPT !.src = s, !.resolved = Resolve(s)]
    /\ UNCHANGED <<home, runner, lifecycleVarsButCfg>>

\* `sbox run` as far as the configuration goes
RunE_Config ==
    /\ Len(cfg.stored.volumes) < MaxVolumes
    /\ \E saved \in BOOLEAN : cfg' = RunE_ProjectConfig(cfg, saved)
    /\ UNCHANGED <<home, runner, lifecycleVarsButCfg>>

(***************************************************************************)
(* Specifications                                                           *)
(***************************************************************************)
Next ==
    \/ \E p \in Procs : StartCmd(p)
    \/ \E p \in Procs : RunE_Lookup(p)
    \/ \E p \in Procs : RunE_Recreate(p)
    \/ \E p \in Procs : Run_Prepare(p)
    \/ \E p \in Procs : Run_Lookup(p)
    \/ \E p \in Procs : Run_Build(p)
    \/ \E p \in Procs : Sandbox_Create(p)
    \/ \E p \in Procs : Container_Create(p)
    \/ \E p \in Procs : Run_Start(p)
    \/ \E p \in Procs : Container_Attach(p)
    \/ \E p \in Procs : Run_Return(p)
    \/ \E p \in Procs : StopE_Check(p)
    \/ \E p \in Procs : StopE_SaveCache(p)
    \/ \E p \in Procs : Stop_Find(p)
    \/ \E p \in Procs : Stop_Stop(p)
    \/ \E p \in Procs : Stop_Rm(p)
    \/ \E p \in Procs : StopE_Cleanup(p)
    \/ \E p \in Procs : StopE_RemoveProjectData(p)
    \/ AgentWrite
    \/ HostConfigChange
    \/ RunnerNext

Spec == Init /\ [][Next]_vars

\* the runner alone, started in a unit whose shared directory holds any content
\* a host (of this or another version) may have left there
InitRunner ==
    /\ backend \in {BackendSandbox, BackendContainer}
    /\ unit = [st |-> "running", id |-> 1]
    /\ home \in Dirs(Items, {1})
    /\ volume = (backend = BackendContainer)
    /\ image = TRUE
    /\ manifest \in {NoFile} \cup {File(v) : v \in 0..MaxVersion}
    /\ envFile \in {NoFile, File(0)}
    /\ cache \in {NoDir} \cup {Dir(c) : c \in Dirs(Items, {1})}
    /\ devBinary \in BOOLEAN
    /\ hostCfg = 0
    /\ pc = [p \in Procs |-> "idle"]
    /\ cmd = [p \in Procs |-> NoCmd]
    /\ found = [p \in Procs |-> Nil]
    /\ res = [p \in Procs |-> "none"]
    /\ trace = [p \in Procs |-> <<>>]
    /\ budget = MaxCmds
    /\ cause = [cmd |-> "run", op |-> "create"]
    /\ lost = {}
    /\ projectData = TRUE
    /\ call = NoCall
    /\ prep = PrepIdle
    /\ cfg = CfgDefault
    /\ \E m, w, c, f \in BOOLEAN :
        runner = [RunnerStart EXCEPT !.marker = m, !.ws = w, !.claude = c, !.faults = f]

SpecRunner == InitRunner /\ [][RunnerNext]_vars

\* the host-side preparation alone: a `run` about to prepare a shared directory
\* holding whatever an earlier run left, on a host whose optional sources
\* (plugins, agents, context documents) may be unreadable
InitPrepare ==
    /\ backend \in {BackendSandbox, BackendContainer}
    /\ unit = [st |-> "absent", id |-> 0]
    /\ home = {}
    /\ volume = FALSE
    /\ image = FALSE
    /\ manifest \in {NoFile} \cup {File(v) : v \in 0..MaxVersion}
    /\ envFile \in {NoFile, File(0), File(1)}
    /\ cache = NoDir
    /\ devBinary = FALSE
    /\ hostCfg \in {0, 1}
    /\ pc = [p \in Procs |-> IF p = "p1" THEN "prepare" ELSE "idle"]
    /\ cmd = [p \in Procs |-> IF p = "p1" THEN [NoCmd EXCEPT !.name = "run"] ELSE NoCmd]
    /\ found = [p \in Procs |-> Nil]
    /\ res = [p \in Procs |-> "none"]
    /\ trace = [p \in Procs |-> <<>>]
    /\ budget = MaxCmds
    /\ cause = [cmd |-> "none", op |-> "none"]
    /\ lost = {}
    /\ projectData = TRUE
    /\ call = NoCall
    /\ prep \in [faults : BOOLEAN, warn : {{}}]
    /\ cfg = CfgDefault
    /\ runner = RunnerIdle

NextPrepare == \E p \in Procs : Run_Prepare(p)

SpecPrepare == InitPrepare /\ [][NextPrepare]_vars

\* the configuration alone: `run` repeated over any stored project
\* configuration and any sbox.yaml, both left alone between the runs
StoredConfigs ==
    [profiles : {<<>>, <<"go">>},
     volumes : {<<>>, <<(<<"/abs", "/abs">>)>>, <<(<<"/repo/data", "/data">>)>>},
     socket : {"", "never"},
     envs : {<<>>, <<(<<"SHARED", "old">>)>>}]

SboxFiles ==
    [found : {TRUE},
     profiles : {<<>>, <<"go">>, <<"rust">>},
     volumes : {<<>>, <<(<<"./data", "/data">>)>>, <<(<<"/abs", "/abs", "ro">>)>>,
                <<(<<"./data", "/data", "rw">>)>>},
     socket : {"", "always"},
     envs : {<<>>, <<(<<"SHARED", "new">>)>>, <<(<<"BAZ", "qux">>)>>}]

InitConfig ==
    /\ backend = BackendSandbox
    /\ unit = [st |-> "absent", id |-> 0]
    /\ home = {}
    /\ volume = FALSE
    /\ image = FALSE
    /\ manifest = NoFile
    /\ envFile = NoFile
    /\ cache = NoDir
    /\ devBinary = FALSE
    /\ hostCfg = 0
    /\ pc = [p \in Procs |-> "idle"]
    /\ cmd = [p \in Procs |-> NoCmd]
    /\ found = [p \in Procs |-> Nil]
    /\ res = [p \in Procs |-> "none"]
    /\ trace = [p \in Procs |-> <<>>]
    /\ budget = MaxCmds
    /\ cause = [cmd |-> "none", op |-> "none"]
    /\ lost = {}
    /\ projectData = TRUE
    /\ call = NoCall
    /\ prep = PrepIdle
    /\ \E st \in StoredConfigs, f \in {NoSbox} \cup SboxFiles :
        cfg = [CfgDefault EXCEPT !.stored = st, !.file = f]
    /\ runner = RunnerIdle

NextConfig == RunE_Config

SpecConfig == InitConfig /\ [][NextConfig]_vars

\* backend resolution alone, over every combination of sources
BackendValues == {"", BackendSandbox, BackendContainer, "third", "fourth"}

InitBackend ==
    /\ backend = BackendSandbox
    /\ unit = [st |-> "absent", id |-> 0]
    /\ home = {}
    /\ volume = FALSE
    /\ image = FALSE
    /\ manifest = NoFile
    /\ envFile = NoFile
    /\ cache = NoDir
    /\ devBinary = FALSE
    /\ hostCfg = 0
    /\ pc = [p \in Procs |-> "idle"]
    /\ cmd = [p \in Procs |-> NoCmd]
    /\ found = [p \in Procs |-> Nil]
    /\ res = [p \in Procs |-> "none"]
    /\ trace = [p \in Procs |-> <<>>]
    /\ budget = MaxCmds
    /\ cause = [cmd |-> "none", op |-> "none"]
    /\ lost = {}
    /\ projectData = TRUE
    /\ call = NoCall
    /\ prep = PrepIdle
    /\ \E s \in [cli : BackendValues, file : BackendValues \cup {NilPtr},
                 project : BackendValues \cup {NilPtr},
                 global : BackendValues \cup {NilPtr}] :
        cfg = [CfgDefault EXCEPT !.src = s]
    /\ runner = RunnerIdle

NextBackend == ResolveBackend \/ UnsetSource

SpecBackend == InitBackend /\ [][NextBackend]_vars

\* the cache operations alone: a `stop` about to save the cache of a running
\* unit whose runner is about to restore it, over any state-home and cache
InitCache ==
    /\ backend \in {BackendSandbox, BackendContainer}
    /\ unit = [st |-> "running", id |-> 1]
    /\ home \in Dirs(1..MaxEntries, 1..MaxContent)
    /\ volume = (backend = BackendContainer)
    /\ image = TRUE
    /\ manifest = File(EntrypointConfigVersion)
    /\ envFile = File(0)
    /\ cache \in {NoDir} \cup {Dir(c) : c \in Dirs(1..MaxEntries, 1..MaxContent)}
    /\ devBinary = FALSE
    /\ hostCfg = 0
    /\ pc = [p \in Procs |-> IF p = "p1" THEN "saveCache" ELSE "idle"]
    /\ cmd = [p \in Procs |-> IF p = "p1" THEN [NoCmd EXCEPT !.name = "stop"] ELSE NoCmd]
    /\ found = [p \in Procs |-> Nil]
    /\ res = [p \in Procs |-> "none"]
    /\ trace = [p \in Procs |-> <<>>]
    /\ budget = MaxCmds
    /\ cause = [cmd |-> "run", op |-> "create"]
    /\ lost = {}
    /\ projectData = TRUE
    /\ call = NoCall
    /\ prep = PrepIdle
    /\ cfg = CfgDefault
    /\ runner = [RunnerStart EXCEPT !.pc = "restore"]

NextCache ==
    \/ \E p \in Procs : StopE_SaveCache(p)
    \/ R_Restore

SpecCache == InitCache /\ [][NextCache]_vars

(***************************************************************************)
(* Library functions evaluated on their own                                 *)
(***************************************************************************)
\* every variable but `call`
restVars == <<backend, unit, home, volume, image, manifest, envFile, cache, devBinary,
              hostCfg, pc, cmd, found, res, trace, budget, cause, lost, projectData,
              prep, cfg, runner>>

\* no command issued and nothing created yet
AtRest ==
    /\ backend = BackendSandbox
    /\ unit = [st |-> "absent", id |-> 0]
    /\ home = {}
    /\ volume = FALSE
    /\ image = FALSE
    /\ manifest = NoFile
    /\ envFile = NoFile
    /\ cache = NoDir
    /\ devBinary = FALSE
    /\ hostCfg = 0
    /\ pc = [p \in Procs |-> "idle"]
    /\ cmd = [p \in Procs |-> NoCmd]
    /\ found = [p \in Procs |-> Nil]
    /\ res = [p \in Procs |-> "none"]
    /\ trace = [p \in Procs |-> <<>>]
    /\ budget = 0
    /\ cause = [cmd |-> "none", op |-> "none"]
    /\ lost = {}
    /\ projectData = TRUE
    /\ prep = PrepIdle
    /\ cfg = CfgDefault
    /\ runner = RunnerIdle

\* the sequences over S of at most n entries
SeqsUpTo(S, n) == UNION {[1..k -> S] : k \in 0..n}

(***************************************************************************)
(* Environment variables: an entry is <<name>> (passthrough, `NAME`) or     *)
(* <<name, value>> (`NAME=value`)                                           *)
(***************************************************************************)
MaxEnvs == 2

\* the name of an entry: what precedes its first `=`
EnvName(spec) == spec[1]

\* no `=` in the entry
Passthrough(spec) == Len(spec) = 1

\* one source applied to the ordered map: an entry replaces, in place, the one
\* of the same name, and is appended when the name is new
RECURSIVE ApplyEnvs(_, _, _)
ApplyEnvs(acc, envs, tag) ==
    IF envs = <<>> THEN acc
    ELSE LET e == [Spec |-> Head(envs), Source |-> tag]
             hit == {i \in 1..Len(acc) : EnvName(acc[i].Spec) = EnvName(e.Spec)}
             next == IF hit = {} THEN Append(acc, e)
                     ELSE [i \in 1..Len(acc) |-> IF i \in hit THEN e ELSE acc[i]]
         IN ApplyEnvs(next, Tail(envs), tag)

\* a merge in which sbox.yaml is applied last
MergeEnvs_ProjectBeforeSbox(globalEnvs, projectEnvs, sboxFileEnvs) ==
    ApplyEnvs(ApplyEnvs(ApplyEnvs(<<>>, globalEnvs, "global"),
                        projectEnvs, "project"),
              sboxFileEnvs, ".sbox")

\* global, then sbox.yaml, then project: the list of [Spec, Source]
MergeEnvs(globalEnvs, projectEnvs, sboxFileEnvs) ==
    ApplyEnvs(ApplyEnvs(ApplyEnvs(<<>>, globalEnvs, "global"),
                        sboxFileEnvs, ".sbox"),
              projectEnvs, "project")

\* os.Getenv: the empty string when the variable is not set
Getenv(host, name) == IF name \in DOMAIN host THEN host[name] ELSE ""

\* a resolution that leaves the passthrough entries out
Resolved_DropPassthrough(env, host) ==
    IF ~Passthrough(env) THEN <<env>> ELSE <<>>

\* one merged entry as written to .sbox/env: a passthrough entry takes the host's
\* value, and is skipped when the host has none
Resolved(env, host) ==
    IF ~Passthrough(env) THEN <<env>>
    ELSE IF Getenv(host, EnvName(env)) # ""
         THEN <<<<EnvName(env), Getenv(host, EnvName(env))>>>>
         ELSE <<>>

RECURSIVE ResolveAll(_, _)
ResolveAll(merged, host) ==
    IF merged = <<>> THEN <<>>
    ELSE Resolved(Head(merged).Spec, host) \o ResolveAll(Tail(merged), host)

resolveEnvs(globalEnvs, projectEnvs, sboxFileEnvs, host) ==
    ResolveAll(MergeEnvs(globalEnvs, projectEnvs, sboxFileEnvs), host)

GlobalEnvs == {<<"TOKEN">>, <<"FOO", "global">>}
SboxFileEnvs == {<<"FOO", "baz">>, <<"BAZ", "qux">>}
ProjectEnvs == {<<"FOO", "bar">>, <<"TOKEN", "set">>}
HostEnvs == [{"TOKEN"} -> {"", "h1", "h2"}]

\* `sbox env`: the merged list with the origin of each entry
Env_Merge ==
    /\ call.fn = "envs"
    /\ call.merged = NotRun
    /\ call' = [call EXCEPT !.merged =
                   [st |-> "ok",
                    list |-> MergeEnvs(call.global, call.project, call.sboxFile)]]
    /\ UNCHANGED restVars

\* PrepareSboxDirectory resolves the entries and writes .sbox/env
Env_Prepare ==
    /\ call.fn = "envs"
    /\ call' = [call EXCEPT !.written =
                   [st |-> "ok",
                    list |-> resolveEnvs(call.global, call.project, call.sboxFile,
                                         call.host)]]
    /\ call' # call
    /\ UNCHANGED restVars

\* the user's shell exports another value, or unsets the variable
HostEnvChange ==
    /\ call.fn = "envs"
    /\ \E h \in HostEnvs : h # call.host /\ call' = [call EXCEPT !.host = h]
    /\ UNCHANGED restVars

InitEnvs ==
    /\ AtRest
    /\ call \in {[fn |-> "envs", global |-> g, project |-> p, sboxFile |-> f,
                  host |-> h, merged |-> NotRun, written |-> NotRun] :
                    g \in SeqsUpTo(GlobalEnvs, MaxEnvs),
                    p \in SeqsUpTo(ProjectEnvs, MaxEnvs),
                    f \in SeqsUpTo(SboxFileEnvs, MaxEnvs),
                    h \in HostEnvs}

NextEnvs == Env_Merge \/ Env_Prepare \/ HostEnvChange

SpecEnvs == InitEnvs /\ [][NextEnvs]_vars

(***************************************************************************)
(* The arguments a unit is created with: volumes and the Docker socket      *)
(***************************************************************************)
\* the host paths os.Stat finds
HostPaths == {"/abs", "/repo/data"}

\* the -v argument of a volume whose host path exists
MountArgs(volumes) ==
    SelectSeq(volumes, LAMBDA vol : ParseVolumeSpec(vol).host \in HostPaths)

\* buildVolumeMounts (sandbox backend): an invalid specification is an error
buildVolumeMounts(volumes) ==
    IF \E i \in 1..Len(volumes) : ~ParseVolumeSpec(volumes[i]).ok
    THEN [st |-> "err_volume"]
    ELSE [st |-> "ok", mounts |-> MountArgs(volumes)]

\* ContainerBackend.buildRunArgs: an invalid specification is skipped with a
\* warning
buildRunArgs(volumes) ==
    [st |-> "ok",
     mounts |-> MountArgs(SelectSeq(volumes, LAMBDA vol : ParseVolumeSpec(vol).ok))]

\* a decision that reads an unknown project value as never
shouldMountDockerSocket_UnknownIsNever(config, projectConfig, explicit) ==
    explicit \/ projectConfig.socket = "always"
             \/ (projectConfig.socket \in {"", "auto"} /\ config # "never")

\* shouldMountDockerSocket: the flag, then the project's always/never, then
\* the global setting; an unknown value is passed over
shouldMountDockerSocket(config, projectConfig, explicit) ==
    IF explicit THEN TRUE
    ELSE IF projectConfig.socket = "always" THEN TRUE
    ELSE IF projectConfig.socket = "never" THEN FALSE
    ELSE config # "never"

\* the arguments of `docker sandbox run` / `docker run` for the merged
\* configuration
Create_Args ==
    /\ call.fn = "args"
    /\ cfg.eff.st = "ok"
    /\ \E explicit \in BOOLEAN :
        LET m == IF backend = BackendSandbox
                 THEN buildVolumeMounts(cfg.eff.config.volumes)
                 ELSE buildRunArgs(cfg.eff.config.volumes)
            socket == IF backend = BackendSandbox
                      THEN shouldMountDockerSocket(call.config, cfg.eff.config, explicit)
                      ELSE explicit
        IN call' = [call EXCEPT !.explicit = explicit,
                                !.out = IF m.st = "ok"
                                        THEN [st |-> "ok", mounts |-> m.mounts,
                                              socket |-> socket]
                                        ELSE m]
    /\ call' # call
    /\ UNCHANGED restVars

ArgsStored ==
    [profiles : {<<>>},
     volumes : {<<>>, <<(<<"/abs", "/abs">>)>>, <<(<<"/abs", "/abs", "rw">>)>>,
                <<(<<"/missing", "/mnt">>)>>},
     socket : {"", "never", "sometimes"},
     envs : {<<>>}]

ArgsSboxFiles ==
    [found : {TRUE},
     profiles : {<<>>},
     volumes : {<<>>, <<(<<"./data", "/data">>)>>, <<(<<"./data", "/data", "rw">>)>>},
     socket : {"", "always", "sometimes"},
     envs : {<<>>}]

InitArgs ==
    /\ backend \in {BackendSandbox, BackendContainer}
    /\ unit = [st |-> "absent", id |-> 0]
    /\ home = {}
    /\ volume = FALSE
    /\ image = FALSE
    /\ manifest = NoFile
    /\ envFile = NoFile
    /\ cache = NoDir
    /\ devBinary = FALSE
    /\ hostCfg = 0
    /\ pc = [p \in Procs |-> "idle"]
    /\ cmd = [p \in Procs |-> NoCmd]
    /\ found = [p \in Procs |-> Nil]
    /\ res = [p \in Procs |-> "none"]
    /\ trace = [p \in Procs |-> <<>>]
    /\ budget = MaxCmds
    /\ cause = [cmd |-> "none", op |-> "none"]
    /\ lost = {}
    /\ projectData = TRUE
    /\ call \in {[fn |-> "args", config |-> g, explicit |-> FALSE, out |-> NotRun] :
                    g \in {"auto", "never"}}
    /\ prep = PrepIdle
    /\ \E st \in ArgsStored, f \in {NoSbox} \cup ArgsSboxFiles :
        cfg = [CfgDefault EXCEPT !.stored = st, !.file = f]
    /\ runner = RunnerIdle

NextArgs == RunE_Config \/ Create_Args

SpecArgs == InitArgs /\ [][NextArgs]_vars

(***************************************************************************)
(* Profiles and the template image.  A profile name is a string, given by   *)
(* its characters: a word, or words around a separator character            *)
(***************************************************************************)
MaxRequested == 2

Go == <<"go">>
Rust == <<"rust">>
Substreams == <<"substreams">>
Custom == <<"custom">>

\* BuiltinProfiles, by dependencies (only substreams has one; the profiles
\* without dependencies are represented by go and rust)
BuiltinProfiles == [n \in {Go, Rust, Substreams} |->
                        IF n = Substreams THEN <<Rust>> ELSE <<>>]

\* GetProfile(name): ok is false for an unknown name
GetProfile(catalog, name) ==
    IF name \in DOMAIN catalog THEN [ok |-> TRUE, Dependencies |-> catalog[name]]
    ELSE [ok |-> FALSE]

NoneResolved == [seen |-> {}, result |-> <<>>, overflow |-> FALSE]

RECURSIVE resolve(_, _, _, _)
RECURSIVE resolveEach(_, _, _, _)
\* the closure `resolve` of ResolveProfiles; stack holds the names whose call
\* has not returned.  A name is marked seen only after its dependencies, so a
\* call for a name on the stack repeats the call it is nested in: the
\* recursion does not end, and the run dies of stack exhaustion
resolve(catalog, name, r, stack) ==
    IF r.overflow \/ name \in r.seen THEN r
    ELSE IF ~GetProfile(catalog, name).ok
    THEN [r EXCEPT !.seen = @ \cup {name}, !.result = Append(@, name)]
    ELSE IF name \in stack THEN [r EXCEPT !.overflow = TRUE]
    ELSE LET d == resolveEach(catalog, GetProfile(catalog, name).Dependencies, r,
                              stack \cup {name})
         IN IF d.overflow THEN d
            ELSE [d EXCEPT !.seen = @ \cup {name}, !.result = Append(@, name)]

resolveEach(catalog, names, r, stack) ==
    IF names = <<>> THEN r
    ELSE resolveEach(catalog, Tail(names), resolve(catalog, Head(names), r, stack), stack)

\* a resolution that lists the requested names before their dependencies
ResolveProfiles_RequestedFirst(catalog, profiles) ==
    LET r == resolveEach(catalog, profiles, NoneResolved, {})
    IN IF r.overflow THEN [st |-> "stack_overflow"]
       ELSE [st |-> "ok",
             list |-> AppendNew(profiles, r.result)]

\* TemplateBuilder.ResolveProfiles
ResolveProfiles(catalog, profiles) ==
    LET r == resolveEach(catalog, profiles, NoneResolved, {})
    IN IF r.overflow THEN [st |-> "stack_overflow"] ELSE [st |-> "ok", list |-> r.result]

\* a builder resolves its profiles
TB_ResolveProfiles ==
    /\ call.fn = "profiles"
    /\ call.resolved = NotRun
    /\ call' = [call EXCEPT !.resolved = ResolveProfiles(call.catalog, call.Profiles)]
    /\ UNCHANGED restVars

\* the result is given to a new builder
TB_ResolveAgain ==
    /\ call.fn = "profiles"
    /\ call.resolved.st = "ok"
    /\ call.again = NotRun
    /\ call' = [call EXCEPT !.again = ResolveProfiles(call.catalog, call.resolved.list)]
    /\ UNCHANGED restVars

ProfileNames == {Go, Rust, Substreams}

\* the dependency lists a catalog gives a profile
DependencyLists(n) ==
    SeqsUpTo(ProfileNames, 1)
        \cup {d \in [1..2 -> ProfileNames \ {n}] : d[1] # d[2]}

Catalogs == {c \in [ProfileNames -> UNION {DependencyLists(n) : n \in ProfileNames}] :
                \A n \in ProfileNames : c[n] \in DependencyLists(n)}

InitProfiles ==
    /\ AtRest
    /\ call \in {[fn |-> "profiles", catalog |-> c, Profiles |-> p,
                  resolved |-> NotRun, again |-> NotRun] :
                    c \in Catalogs,
                    p \in SeqsUpTo(ProfileNames \cup {Custom}, MaxRequested)}

NextProfiles == TB_ResolveProfiles \/ TB_ResolveAgain

SpecProfiles == InitProfiles /\ [][NextProfiles]_vars

(***************************************************************************)
(* The tag of the template image                                            *)
(***************************************************************************)
\* a name that is not a profile and holds the separator character
GoRust == <<"go", ",", "rust">>

\* byte order of the characters: the separators precede the letters
CharRank == [c \in {",", ";", "dev", "go", "rust", "substreams", "v1", "v2"} |->
                CASE c = "," -> 1 [] c = ";" -> 2 [] c = "dev" -> 3 [] c = "go" -> 4
                  [] c = "rust" -> 5 [] c = "substreams" -> 6 [] c = "v1" -> 7
                  [] c = "v2" -> 8]

\* a <= b as strings
RECURSIVE StrLeq(_, _)
StrLeq(a, b) ==
    IF a = <<>> THEN TRUE
    ELSE IF b = <<>> THEN FALSE
    ELSE IF Head(a) # Head(b) THEN CharRank[Head(a)] < CharRank[Head(b)]
    ELSE StrLeq(Tail(a), Tail(b))

RECURSIVE Insert(_, _)
Insert(x, sorted) ==
    IF sorted = <<>> THEN <<x>>
    ELSE IF StrLeq(x, Head(sorted)) THEN <<x>> \o sorted
    ELSE <<Head(sorted)>> \o Insert(x, Tail(sorted))

\* sort.Strings
RECURSIVE SortStrings(_)
SortStrings(list) ==
    IF list = <<>> THEN <<>> ELSE Insert(Head(list), SortStrings(Tail(list)))

\* strings.Join(list, sep)
RECURSIVE Join(_, _)
Join(list, sep) ==
    IF list = <<>> THEN <<>>
    ELSE IF Len(list) = 1 THEN Head(list)
    ELSE Head(list) \o <<sep>> \o Join(Tail(list), sep)

\* sboxVersion: "dev" when SBOX_DEV=1
sboxVersion(dev, version) == IF dev THEN <<"dev">> ELSE version

\* the first 12 hex digits of SHA-256, taken as free of collisions: a digest
\* is represented by the text it is the digest of
Sha256(text) == [digest |-> text]

\* TemplateHash: the digest of the sorted resolved names joined by commas, a
\* semicolon and the version
TemplateHash(resolved, version) ==
    Sha256(Join(SortStrings(resolved), ",") \o <<";">> \o version)

\* ImageName: sbox-template:<hash>
ImageName(profiles, dev, version) ==
    [repo |-> "sbox-template",
     tag |-> TemplateHash(ResolveProfiles(BuiltinProfiles, profiles).list,
                          sboxVersion(dev, version))]

\* builder i computes the name of its image
TB_ImageName(i) ==
    /\ call.fn = "tag"
    /\ call.tb[i].image = NotRun
    /\ call' = [call EXCEPT !.tb[i].image =
                   ImageName(call.tb[i].Profiles, call.dev, call.tb[i].Version)]
    /\ UNCHANGED restVars

Builders ==
    [Profiles : SeqsUpTo({Go, Rust, Substreams, GoRust}, MaxRequested),
     Version : {<<"v1">>, <<"v2">>},
     image : {NotRun}]

InitTag ==
    /\ AtRest
    /\ call \in {[fn |-> "tag", dev |-> d, tb |-> <<a, b>>] :
                    d \in BOOLEAN, a \in Builders, b \in Builders}

NextTag == \E i \in 1..2 : TB_ImageName(i)

SpecTag == InitTag /\ [][NextTag]_vars

(***************************************************************************)
(* Build: two invocations, each with its builder, share the local images    *)
(***************************************************************************)
Invocations == 1..2

NoBuild == [pc |-> "start", builds |-> 0, target |-> NotRun, ret |-> NotRun]

\* the name of the image of invocation i
BuildImage(i) == ImageName(call.inv[i].Profiles, call.dev, call.inv[i].Version)

\* a Build that never reuses an image
Skip_Never(forceRebuild, exists) == FALSE

\* Build's test: the image exists and no rebuild is forced
Skip(forceRebuild, exists) == ~forceRebuild /\ exists

\* Build computes the image's name, inspects the image and returns its name
\* if it may be used
Build_Check(i) ==
    /\ call.fn = "build"
    /\ call.inv[i].pc = "start"
    /\ call' = IF Skip(call.inv[i].force, BuildImage(i) \in call.images)
               THEN [call EXCEPT !.inv[i].pc = "done",
                                 !.inv[i].ret = [st |-> "ok", image |-> BuildImage(i)]]
               ELSE [call EXCEPT !.inv[i].pc = "prepare"]
    /\ UNCHANGED restVars

\* GenerateDockerfile: an unknown profile is an error
GenerateDockerfile(profiles) ==
    IF \E n \in Elems(ResolveProfiles(BuiltinProfiles, profiles).list) :
           ~GetProfile(BuiltinProfiles, n).ok
    THEN "err_unknown_profile" ELSE "ok"

\* the architecture is detected (or not) and the Dockerfile written
Build_Prepare(i) ==
    /\ call.fn = "build"
    /\ call.inv[i].pc = "prepare"
    /\ \E arch \in {"ok", "err_arch"} :
        LET err == IF arch # "ok" THEN arch
                   ELSE GenerateDockerfile(call.inv[i].Profiles)
        IN call' = IF err # "ok"
                   THEN [call EXCEPT !.inv[i].pc = "done", !.inv[i].ret = [st |-> err]]
                   ELSE [call EXCEPT !.inv[i].pc = "build"]
    /\ UNCHANGED restVars

\* docker build -t imageName: the image is tagged when the build succeeds
Build_Docker(i) ==
    /\ call.fn = "build"
    /\ call.inv[i].pc = "build"
    /\ \E ok \in BOOLEAN :
        call' = [call EXCEPT
                    !.images = IF ok THEN @ \cup {BuildImage(i)} ELSE @,
                    !.inv[i].pc = "done",
                    !.inv[i].builds = @ + 1,
                    !.inv[i].target = BuildImage(i),
                    !.inv[i].ret = IF ok THEN [st |-> "ok", image |-> BuildImage(i)]
                                   ELSE [st |-> "err_build"]]
    /\ UNCHANGED restVars

BuildRequests ==
    {[Profiles |-> p, Version |-> v, force |-> f, pc |-> NoBuild.pc,
      builds |-> NoBuild.builds, target |-> NoBuild.target, ret |-> NoBuild.ret] :
        p \in {<<Go>>, <<Substreams>>, <<Rust, Substreams>>, <<Custom>>},
        v \in {<<"v1">>, <<"v2">>},
        f \in BOOLEAN}

InitBuild ==
    /\ AtRest
    /\ \E a \in BuildRequests, b \in BuildRequests :
        \E im \in {{}, {ImageName(a.Profiles, FALSE, a.Version)}} :
            call = [fn |-> "build", dev |-> FALSE, inv |-> <<a, b>>, images |-> im]

NextBuild == \E i \in Invocations : Build_Check(i) \/ Build_Prepare(i) \/ Build_Docker(i)

SpecBuild == InitBuild /\ [][NextBuild]_vars

(***************************************************************************)
(* Drift of the mounts of an existing sandbox                               *)
(***************************************************************************)
MaxMounts == 2

\* the host's file system: /link-a is a symbolic link to /a, /gone is absent
SymlinkTarget == [p \in {"/link-a"} |-> "/a"]
ExistingPaths == {"/a", "/b"}

\* filepath.EvalSymlinks, with "" for its error
EvalSymlinks(path) ==
    IF path \in DOMAIN SymlinkTarget THEN SymlinkTarget[path]
    ELSE IF path \in ExistingPaths THEN path
    ELSE ""

\* the resolved source, the source itself when it cannot be resolved
RealSource(path) == IF EvalSymlinks(path) = "" THEN path ELSE EvalSymlinks(path)

\* actualByDest: the mounts of the sandbox by destination
ActualByDest(actualMounts) ==
    [d \in {actualMounts[i].Destination : i \in 1..Len(actualMounts)} |->
        actualMounts[CHOOSE i \in 1..Len(actualMounts) :
            /\ actualMounts[i].Destination = d
            /\ \A j \in (i + 1)..Len(actualMounts) : actualMounts[j].Destination # d]]

\* a test that compares the sources as written
IsMissing_RawSource(expected, actualByDest) ==
    \/ expected.Destination \notin DOMAIN actualByDest
    \/ expected.Source # actualByDest[expected.Destination].Source

\* the test CheckMountMismatch makes of an expected mount
IsMissing(expected, actualByDest) ==
    \/ expected.Destination \notin DOMAIN actualByDest
    \/ /\ expected.Source # actualByDest[expected.Destination].Source
       /\ RealSource(expected.Source)
              # RealSource(actualByDest[expected.Destination].Source)

\* CheckMountMismatch: nil, or the expected mounts that are missing
CheckMountMismatch(actualMounts, expectedMounts) ==
    LET missing == SelectSeq(expectedMounts,
                             LAMBDA e : IsMissing(e, ActualByDest(actualMounts)))
    IN IF missing = <<>> THEN [st |-> "nil"]
       ELSE [st |-> "mismatch", Missing |-> missing]

Mount_Check ==
    /\ call.fn = "mounts"
    /\ call.out = NotRun
    /\ call' = [call EXCEPT !.out = CheckMountMismatch(call.actual, call.expected)]
    /\ UNCHANGED restVars

VolumeMounts == [Source : {"/a", "/link-a", "/b", "/gone"}, Destination : {"/x", "/y"}]

\* the mounts of a sandbox: one mount per destination
ActualMounts ==
    {m \in SeqsUpTo(VolumeMounts, 2) :
        \A i, j \in 1..Len(m) : i # j => m[i].Destination # m[j].Destination}

InitMounts ==
    /\ AtRest
    /\ call \in {[fn |-> "mounts", actual |-> a, expected |-> e, out |-> NotRun] :
                    a \in ActualMounts, e \in SeqsUpTo(VolumeMounts, MaxMounts)}

NextMounts == Mount_Check

SpecMounts == InitMounts /\ [][NextMounts]_vars

(***************************************************************************)
(* Discovery of units: several workspaces, units by name and recorded       *)
(* workspace.  A workspace is [dir, base]: its directory and its base name, *)
(* the base name given by its characters                                    *)
(***************************************************************************)
SafeChars == {"a", "b", "-", "_"}

\* regexp [^a-zA-Z0-9_-] replaced by "-"
RECURSIVE ReplaceUnsafe(_)
ReplaceUnsafe(s) ==
    IF s = <<>> THEN <<>>
    ELSE <<IF Head(s) \in SafeChars THEN Head(s) ELSE "-">> \o ReplaceUnsafe(Tail(s))

\* consecutive hyphens become one
RECURSIVE Collapse(_)
Collapse(s) ==
    IF Len(s) < 2 THEN s
    ELSE IF s[1] = "-" /\ s[2] = "-" THEN Collapse(Tail(s))
    ELSE <<Head(s)>> \o Collapse(Tail(s))

\* strings.Trim(s, "-")
RECURSIVE TrimLeft(_)
TrimLeft(s) == IF s # <<>> /\ Head(s) = "-" THEN TrimLeft(Tail(s)) ELSE s
RECURSIVE TrimRight(_)
TrimRight(s) ==
    IF s # <<>> /\ s[Len(s)] = "-" THEN TrimRight(SubSeq(s, 1, Len(s) - 1)) ELSE s

\* GenerateSandboxName: sbox-claude-<sanitized base name of the workspace>
GenerateSandboxName(ws) ==
    LET sanitized == TrimRight(TrimLeft(Collapse(ReplaceUnsafe(ws.base))))
    IN <<"sbox-claude-">> \o (IF sanitized = <<>> THEN <<"workspace">> ELSE sanitized)

\* ContainerBackend.containerName
containerName(ws) == GenerateSandboxName(ws)

\* a name given by an earlier release
OldName == <<"claude-sandbox-1">>

NoUnit == [Name |-> <<>>, Workspace |-> "none", st |-> "absent"]

\* FindDockerSandboxByName over the listed units
ByName(units, name) ==
    IF \E u \in units : u.Name = name THEN CHOOSE u \in units : u.Name = name
    ELSE NoUnit

\* FindDockerSandbox: by the expected name, then by the recorded workspace
FindDockerSandboxOf(units, ws) ==
    IF ByName(units, GenerateSandboxName(ws)) # NoUnit
    THEN ByName(units, GenerateSandboxName(ws))
    ELSE IF \E u \in units : u.Workspace = ws
         THEN CHOOSE u \in units : u.Workspace = ws
         ELSE NoUnit

\* ContainerBackend.Find: docker ps -a --filter name=^<name>$
FindContainer(units, ws) == ByName(units, containerName(ws))

\* a FindRunning that returns the unit whatever its status
FindRunningOf_AnyStatus(b, units, ws) ==
    IF b = BackendSandbox THEN FindDockerSandboxOf(units, ws) ELSE FindContainer(units, ws)

\* FindRunning of either backend
FindRunningOf(b, units, ws) ==
    LET u == IF b = BackendSandbox THEN FindDockerSandboxOf(units, ws)
             ELSE FindContainer(units, ws)
    IN IF u.st = "running" THEN u ELSE NoUnit

\* the name runE gives the sandbox: the one stored in the project
\* configuration, generated when none is stored
SandboxNameOf(stored, ws) ==
    IF stored[ws] = <<>> THEN GenerateSandboxName(ws) ELSE stored[ws]

\* the lookup that decides whether Run creates a unit: RunSandbox and
\* ContainerBackend.Run both look the unit up by name
RunLookup(b, units, name, ws) ==
    IF b = BackendSandbox THEN ByName(units, name)
    ELSE FindContainer(units, ws)

\* the units after one of them changed state
WithState(units, u, st) == (units \ {u}) \cup {[u EXCEPT !.st = st]}

\* `run` in workspace ws: runE looks for an existing sandbox (by name, then by
\* workspace), Run looks the unit up again and creates it when it finds none
Units_Run(ws) ==
    /\ call.fn = "units"
    /\ LET name == IF call.backend = BackendSandbox
                   THEN SandboxNameOf(call.stored, ws) ELSE containerName(ws)
           existing == IF call.backend # BackendSandbox
                       THEN FindContainer(call.units, ws)
                       ELSE IF ByName(call.units, name) # NoUnit
                       THEN ByName(call.units, name)
                       ELSE FindDockerSandboxOf(call.units, ws)
           hit == RunLookup(call.backend, call.units, name, ws)
       IN \E created \in BOOLEAN :
           call' = [call EXCEPT
               !.stored = IF call.backend = BackendSandbox
                          THEN [@ EXCEPT ![ws] = name] ELSE @,
               !.units = IF hit # NoUnit THEN WithState(@, hit, "running")
                         ELSE IF created
                         THEN @ \cup {[Name |-> name, Workspace |-> ws, st |-> "running"]}
                         ELSE @,
               !.last = [cmd |-> "run", ws |-> ws, existing |-> existing,
                         created |-> (hit = NoUnit /\ created),
                         ops |-> IF hit # NoUnit THEN <<"run">>
                                 ELSE IF created THEN <<"create", "run">>
                                 ELSE <<"create">>,
                         res |-> IF hit # NoUnit \/ created THEN "ok" ELSE "err_create",
                         target |-> IF hit # NoUnit THEN hit
                                    ELSE IF created
                                    THEN [Name |-> name, Workspace |-> ws, st |-> "absent"]
                                    ELSE NoUnit]]
    /\ call' # call
    /\ UNCHANGED restVars

\* a Stop and a Shell that take the unit whatever its status
RunningUnit_AnyStatus(b, units, ws, ok) ==
    IF ~ok THEN NoUnit
    ELSE IF b = BackendSandbox THEN FindDockerSandboxOf(units, ws)
    ELSE FindContainer(units, ws)

\* what Stop and Shell go on with: FindRunning's unit, none when the listing
\* fails (the sandbox backend returns the error, ContainerBackend.Find nil)
RunningUnit(b, units, ws, ok) ==
    IF ok THEN FindRunningOf(b, units, ws) ELSE NoUnit

\* the error of a lookup that found no running unit: "none" when it is the
\* absent result
FindError(b, ok) == IF ~ok /\ b = BackendSandbox THEN "err_find" ELSE "none"

\* Backend.Stop(workspace, remove): FindRunning, stop, then rm when asked;
\* dock is the step of the external tool that fails
Units_Stop(ws) ==
    /\ call.fn = "units"
    /\ \E remove, ok \in BOOLEAN, dock \in {"none", "stop", "rm"} :
       LET u == RunningUnit(call.backend, call.units, ws, ok)
           stopped == u # NoUnit /\ dock # "stop"
           removed == stopped /\ remove /\ dock # "rm"
       IN call' = [call EXCEPT
               !.units = IF removed THEN @ \ {u}
                         ELSE IF stopped THEN WithState(@, u, "stopped") ELSE @,
               !.last = [cmd |-> IF remove THEN "stop --rm" ELSE "stop", ws |-> ws,
                         existing |-> u, created |-> FALSE, target |-> u,
                         ops |-> IF u = NoUnit THEN <<>>
                                 ELSE IF stopped /\ remove THEN <<"stop", "rm">>
                                 ELSE <<"stop">>,
                         res |-> IF u = NoUnit
                                 THEN (IF FindError(call.backend, ok) = "none"
                                       THEN "absent" ELSE FindError(call.backend, ok))
                                 ELSE IF ~stopped THEN "err_stop"
                                 ELSE IF remove /\ ~removed THEN "err_rm"
                                 ELSE "ok"]]
    /\ call' # call
    /\ UNCHANGED restVars

\* Backend.Shell(workspace): FindRunning, then `docker [sandbox] exec -it`
Units_Shell(ws) ==
    /\ call.fn = "units"
    /\ \E ok, exec \in BOOLEAN :
       LET u == RunningUnit(call.backend, call.units, ws, ok)
       IN call' = [call EXCEPT
               !.last = [cmd |-> "shell", ws |-> ws, existing |-> u,
                         created |-> FALSE, target |-> u,
                         ops |-> IF u = NoUnit THEN <<>> ELSE <<"exec">>,
                         res |-> IF u = NoUnit
                                 THEN (IF FindError(call.backend, ok) = "none"
                                       THEN "err_not_running"
                                       ELSE FindError(call.backend, ok))
                                 ELSE IF exec THEN "ok" ELSE "err_exec"]]
    /\ call' # call
    /\ UNCHANGED restVars

Workspaces ==
    {[dir |-> "/w", base |-> <<"a">>], [dir |-> "/v", base |-> <<"a">>],
     [dir |-> "/w", base |-> <<"a", ".", "b">>]}

NoLast == [cmd |-> "none"]

InitUnits ==
    /\ AtRest
    /\ \E b \in {BackendSandbox, BackendContainer} :
       \E old \in {{}} \cup {{[Name |-> OldName, Workspace |-> ws, st |-> st]} :
                               ws \in Workspaces, st \in {"stopped", "running"}} :
       \E named \in BOOLEAN :
           /\ (b # BackendSandbox) => (old = {} /\ ~named)
           /\ (old = {}) => ~named
           /\ call = [fn |-> "units", backend |-> b, last |-> NoLast, units |-> old,
                       stored |-> [ws \in Workspaces |->
                                      IF named /\ \E u \in old : u.Workspace = ws
                                      THEN OldName ELSE <<>>]]

NextUnits == \E ws \in Workspaces : Units_Run(ws) \/ Units_Stop(ws) \/ Units_Shell(ws)

SpecUnits == InitUnits /\ [][NextUnits]_vars

(***************************************************************************)
(* The manifest as data: EntrypointConfig, its YAML document, and the       *)
(* round trip through .sbox/entrypoint.yaml.  A YAML mapping is a function  *)
(* from its keys to their values                                            *)
(***************************************************************************)
\* the value of key k in mapping m, the zero value when the key is absent
Field(m, k, zero) == IF k \in DOMAIN m THEN m[k] ELSE zero

\* the keys of a mapping that `omitempty` leaves out: those of empty value
OmitEmpty(m, empty) == [k \in {k \in DOMAIN m : m[k] # empty} |-> m[k]]

\* a plugin marshalled without its omitempty fields
MarshalPlugin_NoOptional(p) == [k \in {"name", "path"} |-> IF k = "name" THEN p.Name ELSE p.Path]

\* yaml.Marshal of an EntrypointPlugin: name, path, and version and
\* package_version when they are not empty
MarshalPlugin(p) ==
    [k \in {"name", "path"} |-> IF k = "name" THEN p.Name ELSE p.Path]
    @@ OmitEmpty([k \in {"version", "package_version"} |->
                     IF k = "version" THEN p.Version ELSE p.PackageVersion], "")

\* yaml.Marshal of an EntrypointAgent
MarshalAgent(a) == [k \in {"name", "path"} |-> IF k = "name" THEN a.Name ELSE a.Path]

\* yaml.Marshal of an EntrypointConfig: version always, plugins and agents
\* when the lists are not empty
Marshal(c) ==
    [k \in {"version"} |-> c.Version]
    @@ OmitEmpty([k \in {"plugins", "agents"} |->
                     IF k = "plugins"
                     THEN [i \in 1..Len(c.Plugins) |-> MarshalPlugin(c.Plugins[i])]
                     ELSE [i \in 1..Len(c.Agents) |-> MarshalAgent(c.Agents[i])]], <<>>)

\* yaml.Unmarshal into an EntrypointConfig: absent keys leave the zero value
Unmarshal(doc) ==
    [Version |-> Field(doc, "version", 0),
     Plugins |-> LET l == Field(doc, "plugins", <<>>)
                 IN [i \in 1..Len(l) |->
                        [Name |-> Field(l[i], "name", ""),
                         Path |-> Field(l[i], "path", ""),
                         Version |-> Field(l[i], "version", ""),
                         PackageVersion |-> Field(l[i], "package_version", "")]],
     Agents |-> LET l == Field(doc, "agents", <<>>)
                IN [i \in 1..Len(l) |->
                       [Name |-> Field(l[i], "name", ""), Path |-> Field(l[i], "path", "")]]]

\* WriteEntrypointConfig: the configuration is stamped with the current
\* version, marshalled and written
WriteEntrypointConfig(c) == Marshal([c EXCEPT !.Version = EntrypointConfigVersion])

\* ReadEntrypointConfig on the content of the file
ReadEntrypointConfigData(doc) ==
    LET c == Unmarshal(doc)
    IN IF c.Version = 0 THEN [st |-> "err_missing_version"]
       ELSE IF c.Version > EntrypointConfigVersion THEN [st |-> "err_newer"]
       ELSE [st |-> "ok", config |-> c]

NoDoc == [exists |-> FALSE]

\* the host writes the manifest
Manifest_Write ==
    /\ call.fn = "manifest"
    /\ ~call.file.exists
    /\ call' = [call EXCEPT !.file = [exists |-> TRUE,
                                      doc |-> WriteEntrypointConfig(call.config)]]
    /\ UNCHANGED restVars

\* the runner reads the manifest
Manifest_Read ==
    /\ call.fn = "manifest"
    /\ call.file.exists
    /\ call.out = NotRun
    /\ call' = [call EXCEPT !.out = ReadEntrypointConfigData(call.file.doc)]
    /\ UNCHANGED restVars

EntrypointPlugins ==
    [Name : {"p@official"}, Path : {"plugins/official/p/abc"},
     Version : {"", "1.0"}, PackageVersion : {"", "abc"}]

EntrypointAgents == [Name : {"a", "b"}, Path : {"agents/a.json"}]

InitManifest ==
    /\ AtRest
    /\ \E v \in 0..MaxVersion, ps \in SeqsUpTo(EntrypointPlugins, MaxItems),
          as \in SeqsUpTo(EntrypointAgents, MaxItems) :
           call = [fn |-> "manifest", file |-> NoDoc, out |-> NotRun,
                   config |-> [Version |-> v, Plugins |-> ps, Agents |-> as]]

NextManifest == Manifest_Write \/ Manifest_Read

SpecManifest == InitManifest /\ [][NextManifest]_vars

(***************************************************************************)
(* Registration of projects: the end of runE, which saves the project       *)
(* configuration and then runs the sandbox, next to `info` and to the full  *)
(* teardown of other invocations                                            *)
(***************************************************************************)
\* SaveProjectConfig: projects/<hash>/config.yaml is written, or the error
SaveProjectConfig(registered, ws, ok) == IF ok THEN registered \cup {ws} ELSE registered

\* ListProjects: the projects whose config.yaml can be read
ListProjects(registered) == registered

\* RemoveProjectData: the project directory is removed
RemoveProjectData(registered, ws) == registered \ {ws}

\* a runE that saves the project configuration when the sandbox has returned
RunEStepAfter_RunFirst(step) ==
    CASE step = "begin" -> "run" [] step = "run" -> "save" [] OTHER -> "end"

\* runE: SaveProjectConfig `must happen BEFORE running the sandbox`, then
\* RunSandbox
RunEStepAfter(step) ==
    CASE step = "begin" -> "save" [] step = "save" -> "run" [] OTHER -> "end"

\* `sbox run` reaches the end of runE in workspace ws
Reg_Begin(ws) ==
    /\ call.fn = "register"
    /\ call.pcs[ws] = "idle"
    /\ call' = [call EXCEPT !.pcs[ws] = RunEStepAfter("begin")]
    /\ UNCHANGED restVars

\* runE: SaveProjectConfig; its error is logged and runE goes on
Reg_Save(ws) ==
    /\ call.fn = "register"
    /\ call.pcs[ws] = "save"
    /\ \E ok \in BOOLEAN :
        call' = [call EXCEPT !.registered = SaveProjectConfig(@, ws, ok),
                             !.saved[ws] = IF ok THEN "ok" ELSE "failed",
                             !.torn[ws] = FALSE,
                             !.pcs[ws] = RunEStepAfter("save")]
    /\ UNCHANGED restVars

\* runE: RunSandbox starts the unit, or returns its error
Reg_Run(ws) ==
    /\ call.fn = "register"
    /\ call.pcs[ws] = "run"
    /\ \E ok \in BOOLEAN :
        call' = [call EXCEPT !.unit[ws] = IF ok THEN "running" ELSE @,
                             !.pcs[ws] = RunEStepAfter("run")]
    /\ UNCHANGED restVars

\* the session ends and runE returns
Reg_Return(ws) ==
    /\ call.fn = "register"
    /\ call.pcs[ws] = "end"
    /\ call' = [call EXCEPT !.unit[ws] = IF @ = "running" THEN "stopped" ELSE @,
                            !.pcs[ws] = "idle"]
    /\ UNCHANGED restVars

\* `sbox stop --rm --all`, confirmed, in another terminal: the unit and the
\* project data are removed
Reg_Teardown(ws) ==
    /\ call.fn = "register"
    /\ ws \in call.registered \/ call.unit[ws] # "absent"
    /\ call' = [call EXCEPT !.registered = RemoveProjectData(@, ws),
                            !.unit[ws] = "absent",
                            !.torn[ws] = TRUE]
    /\ UNCHANGED restVars

\* `sbox info` in another terminal lists the projects
Reg_Info ==
    /\ call.fn = "register"
    /\ call.seen # ListProjects(call.registered)
    /\ call' = [call EXCEPT !.seen = ListProjects(call.registered)]
    /\ UNCHANGED restVars

Projects == {"/w/a", "/w/b"}

InitRegister ==
    /\ AtRest
    /\ call = [fn |-> "register", registered |-> {}, seen |-> {},
               pcs |-> [ws \in Projects |-> "idle"],
               saved |-> [ws \in Projects |-> "none"],
               torn |-> [ws \in Projects |-> FALSE],
               unit |-> [ws \in Projects |-> "absent"]]

NextRegister ==
    \/ \E ws \in Projects : Reg_Begin(ws) \/ Reg_Save(ws) \/ Reg_Run(ws)
                            \/ Reg_Return(ws) \/ Reg_Teardown(ws)
    \/ Reg_Info

SpecRegister == InitRegister /\ [][NextRegister]_vars

(***************************************************************************)
(* The hand-off files under a reader: os.WriteFile rewrites                 *)
(* .sbox/entrypoint.yaml and .sbox/env in place while the runner of a       *)
(* running unit may read them.  A file is the sequence of its lines; a line *)
(* of the manifest is a top-level key with its value                        *)
(***************************************************************************)
\* an open that leaves the previous content in place
Truncate_Keep(content) == content

\* os.WriteFile opens with O_WRONLY|O_CREATE|O_TRUNC: the file is emptied
Truncate(content) == <<>>

\* the file after the first n lines of data have been written from its start
WriteAt(content, data, n) == SubSeq(data, 1, n) \o SubSeq(content, n + 1, Len(content))

\* yaml.Unmarshal of the lines read: the mapping of the keys present
ParseYaml(lines) ==
    [k \in {lines[i].k : i \in 1..Len(lines)} |->
        (CHOOSE i \in 1..Len(lines) : lines[i].k = k /\ \A j \in 1..Len(lines) :
                                         lines[j].k = k => j <= i) ]

\* the value parsed for each key
DocOf(lines) ==
    LET at == ParseYaml(lines) IN [k \in DOMAIN at |-> lines[at[k]].v]

\* ReadEntrypointEnv: the lines that are neither empty nor comments
ReadEntrypointEnv(lines) == SelectSeq(lines, LAMBDA l : l # "" /\ l # "#")

\* the lines of the manifest WriteEntrypointConfig writes for a configuration
ManifestLines(c) ==
    LET doc == WriteEntrypointConfig(c)
    IN <<[k |-> "version", v |-> doc["version"]]>>
       \o (IF "plugins" \in DOMAIN doc THEN <<[k |-> "plugins", v |-> doc["plugins"]]>> ELSE <<>>)
       \o (IF "agents" \in DOMAIN doc THEN <<[k |-> "agents", v |-> doc["agents"]]>> ELSE <<>>)

\* PrepareSboxDirectory of a host-side Run opens the file for writing
Handoff_Open ==
    /\ call.fn = "handoff"
    /\ call.wpc = "idle"
    /\ call' = [call EXCEPT !.file = Truncate(@), !.wpc = "writing"]
    /\ UNCHANGED restVars

\* the write reaches the file, some lines at a time
Handoff_Write ==
    /\ call.fn = "handoff"
    /\ call.wpc = "writing"
    /\ \E n \in (call.n + 1)..Len(call.new) :
        call' = [call EXCEPT !.file = WriteAt(@, call.new, n), !.n = n,
                             !.wpc = IF n = Len(call.new) THEN "done" ELSE "writing"]
    /\ UNCHANGED restVars

\* the runner reads the file: ReadEntrypointConfig / ReadEntrypointEnv
Handoff_Read ==
    /\ call.fn = "handoff"
    /\ call' = [call EXCEPT
           !.obs = call.file,
           !.out = IF call.kind = "manifest"
                   THEN ReadEntrypointConfigData(DocOf(call.file))
                   ELSE [st |-> "ok", envs |-> ReadEntrypointEnv(call.file)]]
    /\ call' # call
    /\ UNCHANGED restVars

HandoffConfigs ==
    [Version : {EntrypointConfigVersion},
     Plugins : SeqsUpTo([Name : {"p@official", "q@official"}, Path : {"plugins/x"},
                         Version : {"1.0"}, PackageVersion : {""}], 1),
     Agents : SeqsUpTo([Name : {"a"}, Path : {"agents/a.json"}], 1)]

HandoffEnvs == {<<"A=1">>, <<"A=2", "B=2">>, <<"A=1", "B=2", "C=3">>}

InitHandoff ==
    /\ AtRest
    /\ \E kind \in {"manifest", "env"} :
       \E old, new \in IF kind = "env" THEN HandoffEnvs
                       ELSE {ManifestLines(c) : c \in HandoffConfigs} :
           /\ old # new
           /\ call = [fn |-> "handoff", kind |-> kind, old |-> old, new |-> new,
                      file |-> old, wpc |-> "idle", n |-> 0,
                      obs |-> <<>>, out |-> NotRun]

NextHandoff == Handoff_Open \/ Handoff_Write \/ Handoff_Read

SpecHandoff == InitHandoff /\ [][NextHandoff]_vars

(***************************************************************************)
(* The stored project configuration under two invocations: each command    *)
(* loads projects/<hash>/config.yaml, changes its copy and saves the copy   *)
(***************************************************************************)
\* GetProjectConfig: the stored configuration, the defaults when there is no file
GetProjectConfig(file) ==
    IF file.exists THEN file.config ELSE [Envs |-> <<>>, Profiles |-> <<>>]

\* envAddProject: the entry replaces the one of its name or is appended
envAddProject(config, arg) ==
    LET hit == {i \in 1..Len(config.Envs) : EnvName(config.Envs[i]) = EnvName(arg)}
    IN [config EXCEPT !.Envs = IF hit = {} THEN Append(@, arg)
                               ELSE [i \in 1..Len(@) |-> IF i \in hit THEN arg ELSE @[i]]]

\* profileAddE: the profile is appended unless the project has it
profileAddE(config, name) ==
    IF name \in Elems(config.Profiles) THEN config
    ELSE [config EXCEPT !.Profiles = Append(@, name)]

\* what a command makes of the configuration it loaded; `run` saves it as it is
Modify(config, c) ==
    CASE c.kind = "env add" -> envAddProject(config, c.arg)
      [] c.kind = "profile add" -> profileAddE(config, c.arg)
      [] OTHER -> config

\* a save that leaves the file as it is
WriteConfig_Keep(file, config) == file

\* SaveProjectConfig: the file is replaced by the configuration in memory
WriteConfig(file, config) == [exists |-> TRUE, config |-> config]

\* an invocation starts a command: GetProjectConfig, then the change in memory
Stored_Load(p) ==
    /\ call.fn = "stored"
    /\ call.inv[p].pc = "idle"
    /\ \E c \in call.cmds :
        /\ \A q \in Procs : call.inv[q].cmd # c
        /\ call' = [call EXCEPT
               !.inv[p] = [pc |-> "loaded", cmd |-> c,
                           copy |-> Modify(GetProjectConfig(call.file), c)],
               !.log = Append(@, <<p, "load">>)]
    /\ UNCHANGED restVars

\* the invocation saves its copy
Stored_Save(p) ==
    /\ call.fn = "stored"
    /\ call.inv[p].pc = "loaded"
    /\ call' = [call EXCEPT
           !.file = WriteConfig(@, call.inv[p].copy),
           !.inv[p].pc = "done",
           !.log = Append(@, <<p, "save">>)]
    /\ UNCHANGED restVars

StoreCommands ==
    {[kind |-> "env add", arg |-> a] : a \in {<<"A", "1">>, <<"B", "2">>}}
    \cup {[kind |-> "profile add", arg |-> "go"], [kind |-> "run", arg |-> ""]}

StoredFiles ==
    {[exists |-> FALSE]}
    \cup {[exists |-> TRUE, config |-> [Envs |-> e, Profiles |-> pr]] :
            e \in {<<>>, <<(<<"A", "0">>)>>}, pr \in {<<>>, <<"rust">>}}

NoInvocation == [pc |-> "idle", cmd |-> [kind |-> "none", arg |-> ""]]

InitStored ==
    /\ AtRest
    /\ \E f \in StoredFiles, cs \in SUBSET StoreCommands :
        /\ Cardinality(cs) = 2
        /\ call = [fn |-> "stored", file |-> f, cmds |-> cs, log |-> <<>>,
                   inv |-> [p \in Procs |-> NoInvocation]]

NextStored == \E p \in Procs : Stored_Load(p) \/ Stored_Save(p)

SpecStored == InitStored /\ [][NextStored]_vars

(***************************************************************************)
(* Vocabulary of the properties                                             *)
(***************************************************************************)
\* the operations a step appended to the trace of invocation p
NewOps(p) == {trace'[p][i] : i \in (Len(trace[p]) + 1)..Len(trace'[p])}

\* a name whose unit was removed is free again: a new unit starts from absent
From(st) == IF st = "removed" THEN "absent" ELSE st

\* invocation p took the step
Stepped(p) == pc'[p] # pc[p] \/ trace'[p] # trace[p]

\* the runner's steps, without the hand-off to a development binary
SetupSteps == SelectSeq(runner.steps, LAMBDA x : x # "handoff")
SetupStepsNext == SelectSeq(runner'.steps, LAMBDA x : x # "handoff")

IsPrefix(a, b) == Len(a) <= Len(b) /\ \A i \in 1..Len(a) : a[i] = b[i]

RunnerOrder == <<"restore", "context", "agents", "env", "exec">>

\* the runner found the workspace and has read (or failed to find) the manifest
ReadDone ==
    /\ runner.ws
    /\ runner.pc \in {"restore", "md", "agents", "env", "exec", "agent", "failed"}
    /\ runner.out # "err_dev"

(***************************************************************************)
(* C1  creation race                                                        *)
(***************************************************************************)
\* invocation p lost a creation race: it and another `run` both saw no unit,
\* the other one created it, and p's own create was rejected as a duplicate
RaceLoser(p) ==
    /\ cmd[p].name = "run"
    /\ found[p] = Nil
    /\ HasOp(p, "already_exists")
    /\ \E q \in Procs \ {p} :
        /\ cmd[q].name = "run"
        /\ found[q] = Nil
        /\ HasOp(q, "create")
        /\ ~HasOp(q, "already_exists")
        /\ res[q] \notin {"err_create", "err_run"}

\* C1: when two `run` invocations both see no unit and both attempt creation,
\* the one whose create is rejected because the unit already exists treats
\* that as success and goes on to start/attach; it returns no error because
\* of the race, for either backend.
C1_RaceIsSuccess ==
    \A p \in Procs :
        RaceLoser(p) =>
            /\ res[p] \notin {"err_create", "err_run"}
            /\ pc[p] \in {"start", "attach", "attached", "idle"}

(***************************************************************************)
(* C2  preparation precedes every unit operation                            *)
(***************************************************************************)
UnitOps == {"lookup", "build", "create", "start", "attach"}

C2_Step ==
    \A p \in Procs :
        (cmd[p].name = "run" /\ cmd'[p] = cmd[p]) =>
            \* a preparation that succeeds has rewritten both files from the
            \* host configuration of this moment
            /\ (pc[p] = "prepare" /\ pc'[p] = "lookup") =>
                   /\ manifest' = File(EntrypointConfigVersion)
                   /\ envFile' = File(hostCfg)
            \* no unit operation without a preparation before it
            /\ (NewOps(p) \cap UnitOps # {}) => HasOp(p, "prepare")
            \* a failed preparation ends the Run before any unit operation
            /\ (pc[p] = "prepare" /\ pc'[p] \notin {"prepare", "lookup"}) =>
                   /\ pc'[p] = "idle"
                   /\ res'[p] \in {PrepareError(PrepareSteps[i]) : i \in 1..Len(PrepareSteps)}
                   /\ NewOps(p) \cap UnitOps = {}
                   /\ unit' = unit

\* C2: in every Run, for either backend and whatever the unit's state, the
\* manifest and the environment file are rewritten from the current host
\* configuration before the unit is looked up, built, created, started or
\* attached; if the preparation fails no unit operation is performed.
C2_PrepareBeforeUnit == [][C2_Step]_vars

\* a Run on a running unit attached to it after rewriting the environment
\* file from a host configuration that changed since the unit was created
C2_Witness ==
    \E p \in Procs :
        /\ cmd[p].name = "run"
        /\ pc[p] = "attached"
        /\ HasOp(p, "prepare")
        /\ found[p].st = "running"
        /\ hostCfg = 1
        /\ envFile = File(1)

(***************************************************************************)
(* C3  build and create only for a missing unit                             *)
(***************************************************************************)
C3_OriginalStep ==
    \A p \in Procs :
        (cmd[p].name = "run" /\ NewOps(p) \cap {"build", "create"} # {})
            => ~Exists(unit)

C3_AmendedStep ==
    /\ \A p \in Procs :
        (cmd[p].name = "run" /\ NewOps(p) \cap {"build", "create"} # {})
            => (HasOp(p, "lookup") /\ found[p] = Nil)
    \* a unit is created only while none exists: never a second unit
    /\ unit'.id # unit.id => (~Exists(unit) /\ unit'.id = unit.id + 1)

ListedTransitions ==
    { <<"absent", "stopped", "run", "create">>,
      <<"absent", "running", "run", "create">>,
      <<"stopped", "running", "run", "start">>,
      <<"running", "stopped", "stop", "stop">>,
      <<"stopped", "removed", "stop", "rm">>,
      <<"stopped", "removed", "run --recreate", "rm">>,
      <<"running", "removed", "stop", "rm">> }

\* the transition a step made, if it changed the unit's state
Transition == <<From(unit.st), unit'.st, cause'.cmd, cause'.op>>

Count(t, op) == Cardinality({i \in 1..Len(t) : t[i] = op})

\* C5 as stated: Stop called when no unit is running returns an absent result
\* with no error and performs no external-tool invocation; the stop command
\* then does nothing to any unit.
C5_StopAbsentNoInvocation ==
    \A p \in Procs :
        HasOp(p, "Stop/notrunning") =>
            /\ found[p] = Nil
            /\ res[p] \in {"none", "ok"}
            /\ \A op \in {"lookup", "stop", "rm"} : ~HasOp(p, op)

C5_AmendedStep ==
    \A p \in Procs :
        Contains(trace'[p], "Stop/notrunning") =>
            /\ found'[p] = Nil
            /\ Count(trace'[p], "lookup") = 1
            /\ Count(trace'[p], "stop") = 0
            /\ Count(trace'[p], "rm") = 0
            /\ \/ res'[p] \in {"none", "ok"}
               \/ res'[p] = "err_find" /\ backend = BackendSandbox
               \* after Stop returned: the project data of --all could not be removed
               \/ res'[p] = "err_remove_data" /\ cmd[p].all /\ HasOp(p, "cleanup")
            /\ Stepped(p) => unit' = unit

\* C5 amended: Stop called when no unit is running performs one external-tool
\* invocation, the read-only lookup, and none that changes a unit; unless
\* that lookup fails (sandbox backend) it returns an absent result with no
\* error; the stop command then does nothing to any unit.
C5_StopAbsentOnlyLookup == [][C5_AmendedStep]_vars

\* a `stop` on a stopped unit finished without error and left it stopped
C5_Witness ==
    \E p \in Procs :
        /\ cmd[p].name = "stop"
        /\ HasOp(p, "Stop/notrunning")
        /\ pc[p] = "idle"
        /\ res[p] = "ok"
        /\ unit.st = "stopped"

(***************************************************************************)
(* C6  manifest newer than the runner                                       *)
(***************************************************************************)
\* C6: a manifest whose version exceeds the runner's fails closed: the runner
\* fails with the upgrade message, performs no setup step (restore, context,
\* agents, env) and never launches the agent.
C6_NewerManifestFailsClosed ==
    (manifest.exists /\ manifest.v > EntrypointConfigVersion /\ ReadDone) =>
        /\ runner.pc = "failed"
        /\ runner.out = "err_newer_version"
        /\ SetupSteps = <<>>
        /\ ~runner.plugins

\* the runner has read a newer manifest and stopped with the upgrade message
C6_Witness ==
    /\ manifest.exists
    /\ manifest.v > EntrypointConfigVersion
    /\ ReadDone
    /\ runner.pc = "failed"
    /\ runner.out = "err_newer_version"

(***************************************************************************)
(* C7  no manifest                                                          *)
(***************************************************************************)
\* C7: when the workspace is found but no manifest exists the runner does not
\* fail on that: it goes straight to launching the agent and performs none of
\* the setup steps (no restore, no context, no agents, no env, no plugin
\* flags).  The launch itself needs the agent binary to be installed.
C7_NoManifestLaunchesDirectly ==
    (manifest = NoFile /\ ReadDone) =>
        /\ \/ runner.pc = "exec"
           \/ runner.pc = "agent" /\ runner.out = "launched"
           \/ runner.pc = "failed" /\ runner.out = "err_claude" /\ ~runner.claude
        /\ IsPrefix(SetupSteps, <<"exec">>)
        /\ ~runner.plugins

\* without a manifest the agent was launched and exec is the only step taken
C7_Witness ==
    /\ manifest = NoFile
    /\ ReadDone
    /\ runner.pc = "agent"
    /\ SetupSteps = <<"exec">>
    /\ ~runner.plugins

(***************************************************************************)
(* C8  order of the runner's steps                                          *)
(***************************************************************************)
ValidManifest == manifest.exists /\ manifest.v \in 1..EntrypointConfigVersion

C8_Step ==
    (ValidManifest /\ runner.ws) =>
        \* restore, context, agents, env, exec: in this order, each at most once
        /\ IsPrefix(SetupStepsNext, RunnerOrder)
        \* the agent is launched only after all of them
        /\ runner'.pc = "agent" => SetupStepsNext = RunnerOrder
        \* nothing of the runner executes after the process replacement
        /\ runner.pc = "agent" => runner' = runner

\* C8: with a valid manifest the runner restores the cached state, installs
\* the context document, copies the agents, loads the environment file and
\* then replaces itself with the agent, in this order and each at most once;
\* the agent is never launched before the restore and the environment load,
\* and no runner step executes after the replacement.
C8_RunnerOrder == [][C8_Step]_vars

\* the agent was launched after all four setup steps
C8_Witness ==
    /\ ValidManifest
    /\ runner.ws
    /\ runner.pc = "agent"
    /\ SetupSteps = RunnerOrder

(***************************************************************************)
(* C9  SaveCache before a unit is stopped or removed                        *)
(***************************************************************************)
C9_Step ==
    \A p \in Procs :
        (/\ Stepped(p)
         /\ unit.st = "running"
         /\ unit'.st \in {"stopped", "removed"}
         /\ CmdName(cmd[p]) \in {"run --recreate", "stop"})
            => HasOp(p, "SaveCache")

\* C9: `run --recreate` and every explicit `stop`, with or without --rm,
\* invoke SaveCache on the running unit before that unit is stopped or
\* removed.
C9_SaveCacheBeforeStopOrRemove == [][C9_Step]_vars

(***************************************************************************)
(* C10  state outlives recreation                                           *)
(***************************************************************************)
\* C10: if a unit whose state-home holds S is stopped or destroyed through
\* the orchestrator and a new unit is then created by `run`, the runner's
\* restore step puts S into the new unit's state-home.
C10_StateOutlivesRecreation ==
    (/\ unit.id >= 2
     /\ unit.st = "running"
     /\ cause = [cmd |-> "run", op |-> IF backend = BackendSandbox
                                       THEN "start" ELSE "create"]
     /\ Contains(runner.steps, "restore"))
        => lost \subseteq home

(***************************************************************************)
(* C11  restore never deletes                                               *)
(***************************************************************************)
\* the runner takes its restore step
Restoring == runner.pc = "restore" /\ runner'.pc # "restore"

C11_Step ==
    Restoring =>
        \* an entry without a counterpart in the cache stays as it was
        /\ \A e \in home : e[1] \notin NamesOf(cache.v) => e \in home'
        \* after a restore that did not fail every cache entry is in the state-home
        /\ "restore" \notin runner'.warn => cache.v \subseteq home'
        \* a missing or empty cache: nothing changes, nothing fails
        /\ (cache = NoDir \/ cache.v = {}) =>
               /\ home' = home
               /\ "restore" \notin runner'.warn
               /\ runner'.pc = StepAfter("restore")

\* C11: Restore never deletes: every entry of the state-home without a
\* counterpart in the cache is still present unchanged after Restore, and
\* every cache entry is present in the state-home; with a missing or empty
\* cache Restore is a successful no-op.
C11_RestoreNeverDeletes == [][C11_Step]_vars

\* a restore has replaced nothing of an entry the cache does not hold and has
\* brought in the cache's entries
C11_Witness ==
    /\ Contains(runner.steps, "restore")
    /\ runner.warn = {}
    /\ pc["p1"] = "saveCache"
    /\ cache.v # {}
    /\ cache.v \subseteq home
    /\ \E e \in home : e[1] \notin NamesOf(cache.v)

(***************************************************************************)
(* C12  the cache after SaveCache                                           *)
(***************************************************************************)
\* invocation p's SaveCache returned without error on a running unit
Saved(p) ==
    /\ pc[p] = "saveCache"
    /\ pc'[p] # "saveCache"
    /\ unit.st = "running"
    /\ ~Contains(trace'[p], "SaveCache_failed")

\* C12 as stated: after a successful SaveCache on a running unit the cache
\* directory is an exact snapshot of the live state-home: every live entry
\* and no stale one.
C12_CacheIsSnapshot ==
    [][\A p \in Procs : Saved(p) => cache' = Dir(home)]_vars

\* C12 amended: this holds for the sandbox backend; the container backend's
\* SaveCache succeeds without touching the cache directory.
C12_SandboxCacheIsSnapshot ==
    [][\A p \in Procs :
          Saved(p) => cache' = IF backend = BackendSandbox THEN Dir(home) ELSE cache]_vars

\* the sandbox backend saved a non-empty state-home that is still as it was
C12_Witness ==
    /\ backend = BackendSandbox
    /\ trace["p1"] = <<"SaveCache">>
    /\ runner.pc = "restore"
    /\ home # {}
    /\ cache = Dir(home)

(***************************************************************************)
(* C13  life of the persistence volume                                      *)
(***************************************************************************)
C13_Step ==
    \* created by the run that creates the unit
    /\ (~volume /\ volume') =>
           \E p \in Procs : cmd[p].name = "run" /\ "create" \in NewOps(p)
    \* destroyed only by the full teardown
    /\ (volume /\ ~volume') =>
           \E p \in Procs : /\ Stepped(p)
                            /\ cmd[p].name = "stop"
                            /\ cmd[p].rm
                            /\ cmd[p].all

\* C13: the container backend's persistence volume is created lazily by the
\* first run that creates the unit and, once created, is destroyed only by
\* the full teardown `stop --rm --all`: `run`, `stop` and `stop --rm` never
\* remove it.
C13_VolumeOnlyRemovedByFullTeardown == [][C13_Step]_vars

(***************************************************************************)
(* C14  what `stop` deletes                                                 *)
(***************************************************************************)
\* the invocation refused its flags or the user declined the confirmation
Refused(p) == res[p] \in {"err_flags", "aborted"}

C14_Step ==
    \* the project configuration is deleted only by a confirmed `stop --rm --all`
    /\ (projectData /\ ~projectData') =>
           \E p \in Procs : /\ pc[p] = "removeData" /\ pc'[p] = "idle"
                            /\ cmd[p].name = "stop" /\ cmd[p].rm /\ cmd[p].all
                            /\ res'[p] = "ok"
    \* a refused or declined `stop` changes nothing
    /\ \A p \in Procs :
           (Stepped(p) /\ cmd[p].name = "stop" /\ Refused(p)') =>
               /\ cmd[p].all
               /\ res'[p] = "err_flags" <=> ~cmd[p].rm
               /\ trace'[p] = <<>>
               /\ UNCHANGED <<unit, home, volume, manifest, envFile, cache, projectData>>

C15_Step ==
    \A p \in Procs :
        (pc[p] = "prepare" /\ pc'[p] # "prepare") =>
            \* the preparation fails only at a mandatory step
            /\ res'[p] \in {"none", PrepareError("mkdir"), PrepareError("manifest"),
                            PrepareError("env")}
            /\ prep'.warn \subseteq OptionalSteps
            \* and otherwise writes both files, whatever was skipped
            /\ res'[p] = "none" =>
                   /\ pc'[p] = "lookup"
                   /\ manifest' = File(EntrypointConfigVersion)
                   /\ envFile' = File(hostCfg)
            \* the manifest was written when only the env file could not be
            /\ res'[p] = PrepareError("env") => manifest' = File(EntrypointConfigVersion)

\* C15: the optional steps of Prepare (plugin discovery/copy, agent
\* discovery/copy, context-document assembly) never make it fail: for any
\* combination of their failures Prepare still writes the manifest, stamped
\* with the current schema version, and the env file.
C15_OptionalStepsNeverFailPrepare == [][C15_Step]_vars

\* every optional step failed and both files were written over older ones
C15_Witness ==
    /\ prep.warn = OptionalSteps
    /\ pc["p1"] = "lookup"
    /\ res["p1"] = "none"
    /\ manifest = File(EntrypointConfigVersion)
    /\ envFile = File(hostCfg)

(***************************************************************************)
(* C16  the best-effort steps of the runner                                 *)
(***************************************************************************)
\* the errors a best-effort step of the runner would return
BestEffortErrors == {"err_context", "err_plugins", "err_agents", "err_persist_env"}

\* C16: a failure of a best-effort step of the runner (plugin and agent
\* discovery and copy, context-document install, persistent-environment-file
\* writing) is logged and skipped, never propagated: the runner does not end
\* with the error of such a step, it goes on to launch the agent.
C16_BestEffortNeverPropagates ==
    /\ runner.out \notin BestEffortErrors
    /\ (runner.warn # {} /\ runner.pc = "failed") => runner.out \in {"err_env", "err_claude"}

(***************************************************************************)
(* C17  hand-off to the override binary                                     *)
(***************************************************************************)
HandOffs(r) == Count(r.steps, "handoff")

C17_Step ==
    \* a hand-off is the first thing a runner without the marker does when the
    \* override is there, and the override starts over with the marker
    /\ HandOffs(runner') > HandOffs(runner) =>
           /\ runner.steps = <<>>
           /\ runner.pc = "dev"
           /\ ~runner.marker /\ devBinary
           /\ runner'.marker /\ runner'.pc = "start"
    \* with the override there, the manifest is not read before the hand-off
    /\ (runner.pc = "dev" /\ runner'.pc = "read") => (runner.marker \/ ~devBinary)
    \* a runner started with the marker does not hand off
    /\ runner.marker => HandOffs(runner') = HandOffs(runner)
    /\ HandOffs(runner') <= 1
    \* and goes on towards the launch
    /\ (runner.marker /\ runner.pc = "dev") => runner'.pc = "read"

\* C17: with a locally-overridden orchestrator binary in the shared directory
\* the runner hands execution to it immediately, before reading the manifest,
\* passing a marker; a runner started with the marker never hands off again,
\* so a chain of hand-offs has length at most one and the agent launch is
\* still reached.
C17_HandOffAtMostOnce == [][C17_Step]_vars

\* the override was handed to, went through the setup and launched the agent
C17_Witness ==
    /\ devBinary
    /\ runner.marker
    /\ Len(runner.steps) > 1
    /\ runner.steps[1] = "handoff"
    /\ HandOffs(runner) = 1
    /\ runner.out = "launched"
    /\ runner.plugins

(***************************************************************************)
(* C18  the stored project configuration across runs                        *)
(***************************************************************************)
\* C18: the merged effective configuration is not persisted: `run` never
\* writes the profiles, volumes or socket policy of sbox.yaml into the stored
\* project configuration, so any number of runs with unchanged inputs leaves
\* the stored configuration's profile and volume lists unchanged.
C18_RunLeavesStoredConfig ==
    [][/\ cfg'.stored.profiles = cfg.stored.profiles
       /\ cfg'.stored.volumes = cfg.stored.volumes
       /\ cfg'.stored.socket = cfg.stored.socket]_vars

(***************************************************************************)
(* C19  backend resolution                                                  *)
(***************************************************************************)
\* the sources in priority order, highest first
Priority(s) == <<s.cli, s.file, s.project, s.global>>

IsSet(v) == v \notin {"", NilPtr}

\* the value of the first source set after position i, the fallback if none is
NextSet(s, i) ==
    LET later == {j \in (i + 1)..Len(Priority(s)) : IsSet(Priority(s)[j])}
    IN IF later = {} THEN BackendSandbox
       ELSE Priority(s)[CHOOSE j \in later : \A k \in later : j <= k]

\* position of the source that wins, 0 if none is set
Winner(s) ==
    LET set == {j \in 1..Len(Priority(s)) : IsSet(Priority(s)[j])}
    IN IF set = {} THEN 0 ELSE CHOOSE j \in set : \A k \in set : j <= k

C19_Step ==
    \* the result is the value of the highest-priority source that is set
    /\ cfg'.resolved # "unresolved" => cfg'.resolved = NextSet(cfg'.src, 0)
    \* with all four set to different values it is the CLI value
    /\ (cfg'.resolved # "unresolved"
        /\ \A i \in 1..4 : IsSet(Priority(cfg'.src)[i])
        /\ Cardinality(Elems(Priority(cfg'.src))) = 4) => cfg'.resolved = cfg'.src.cli
    \* unsetting the winner cascades to the next source set
    /\ (cfg.resolved # "unresolved" /\ Winner(cfg.src) # 0
        /\ ~IsSet(Priority(cfg'.src)[Winner(cfg.src)])) =>
           cfg'.resolved = NextSet(cfg.src, Winner(cfg.src))

\* C19: backend resolution returns the value of the highest-priority source
\* that is set, in the order CLI flag, checked-in config, project config,
\* global default, hardcoded fallback (sandbox); with all four sources set to
\* different values the result is the CLI value, and unsetting the current
\* winner cascades to the next source in that order.
C19_BackendPriority == [][C19_Step]_vars

\* neither the flag nor sbox.yaml sets a backend: the project's value has been
\* resolved, not the global default
C19_Witness ==
    /\ cfg.src = [cli |-> "", file |-> "", project |-> BackendContainer, global |-> "third"]
    /\ cfg.resolved = BackendContainer

(***************************************************************************)
(* C20  priority in the merge of sbox.yaml and the project configuration    *)
(***************************************************************************)
\* the values a list of environment entries gives a name
EnvValues(envs, name) == {envs[i][2] : i \in {j \in 1..Len(envs) : envs[j][1] = name}}

\* a run that merged an sbox.yaml into the project configuration
Merged == cfg.file # NoSbox /\ cfg'.eff.st = "ok" /\ cfg' # cfg

\* C20 as stated: every overridable setting of the effective configuration
\* follows the one priority order in which the checked-in configuration comes
\* before the project configuration.
C20_SinglePriorityOrder ==
    [][Merged =>
        /\ cfg.file.socket # "" => cfg'.eff.config.socket = cfg.file.socket
        /\ \A n \in EnvNames(cfg.file.envs) :
               EnvValues(cfg'.eff.config.envs, n) = EnvValues(cfg.file.envs, n)]_vars

C20_Step ==
    Merged =>
        LET eff == cfg'.eff.config
        IN \* socket policy: checked-in, else project
           /\ eff.socket = IF cfg.file.socket # "" THEN cfg.file.socket
                           ELSE cfg.stored.socket
           \* environment: the project's entry, else the checked-in one
           /\ EnvNames(eff.envs) = EnvNames(cfg.stored.envs) \cup EnvNames(cfg.file.envs)
           /\ \A n \in EnvNames(eff.envs) :
                  EnvValues(eff.envs, n) =
                      IF n \in EnvNames(cfg.stored.envs) THEN EnvValues(cfg.stored.envs, n)
                      ELSE EnvValues(cfg.file.envs, n)
           \* profiles and volumes: the project's list, extended
           /\ IsPrefix(cfg.stored.profiles, eff.profiles)
           /\ Elems(eff.profiles) = Elems(cfg.stored.profiles) \cup Elems(cfg.file.profiles)
           /\ IsPrefix(cfg.stored.volumes, eff.volumes)
           /\ Len(eff.volumes) = Len(cfg.stored.volumes) + Len(cfg.file.volumes)

\* C20, amended: in the merge of the checked-in and the project configuration
\* the checked-in socket policy has priority over the project's, but an
\* environment variable of the project overrides a checked-in one of the same
\* name, and profiles and volumes are accumulated, the project's first.
C20_MergePriority == [][C20_Step]_vars

\* both set SHARED and a socket policy: the effective configuration has the
\* project's SHARED and the checked-in socket policy
C20_Witness ==
    /\ cfg.file # NoSbox
    /\ cfg.eff.st = "ok"
    /\ cfg.file.socket = "always"
    /\ cfg.eff.config.socket = "always"
    /\ cfg.file.envs = <<(<<"SHARED", "new">>)>>
    /\ cfg.eff.config.envs = <<(<<"SHARED", "old">>)>>

\* the three sources in the order they are applied, each entry with its origin
Applied ==
    [i \in 1..Len(call.global) |-> [Spec |-> call.global[i], Source |-> "global"]]
    \o [i \in 1..Len(call.sboxFile) |-> [Spec |-> call.sboxFile[i], Source |-> ".sbox"]]
    \o [i \in 1..Len(call.project) |-> [Spec |-> call.project[i], Source |-> "project"]]

Defs(name) == {i \in 1..Len(Applied) : EnvName(Applied[i].Spec) = name}
Min(S) == CHOOSE x \in S : \A y \in S : x <= y
Max(S) == CHOOSE x \in S : \A y \in S : y <= x

\* C21: the merged list holds each name defined by a source exactly once, at
\* the position where the name was first seen when global, then sbox.yaml,
\* then project entries are applied, with the entry and the origin of the
\* last source defining it; a source without entries leaves no trace
C21_MergeEnvsOrderedMap ==
    (call.fn = "envs" /\ call.merged.st = "ok") =>
        LET m == call.merged.list
        IN /\ \A i, j \in 1..Len(m) :
                  i # j => EnvName(m[i].Spec) # EnvName(m[j].Spec)
           /\ {EnvName(m[i].Spec) : i \in 1..Len(m)}
                  = {EnvName(Applied[i].Spec) : i \in 1..Len(Applied)}
           /\ \A i \in 1..Len(m) : m[i] = Applied[Max(Defs(EnvName(m[i].Spec)))]
           /\ \A i, j \in 1..Len(m) :
                  i < j => Min(Defs(EnvName(m[i].Spec))) < Min(Defs(EnvName(m[j].Spec)))
           /\ call.sboxFile = <<>> =>
                  m = MergeEnvs(call.global, call.project, <<>>)
                  /\ \A i \in 1..Len(m) : m[i].Source # ".sbox"

\* sbox.yaml overrides global in place and project overrides sbox.yaml, as in
\* the repository's test: [A=global], [A=sbox, B=sbox], [B=project] analogues
C21_Witness ==
    /\ call.fn = "envs"
    /\ call.global = <<<<"TOKEN">>, <<"FOO", "global">>>>
    /\ call.sboxFile = <<<<"FOO", "baz">>, <<"BAZ", "qux">>>>
    /\ call.project = <<<<"FOO", "bar">>>>
    /\ call.merged.st = "ok"
    /\ call.merged.list = << [Spec |-> <<"TOKEN">>, Source |-> "global"],
                             [Spec |-> <<"FOO", "bar">>, Source |-> "project"],
                             [Spec |-> <<"BAZ", "qux">>, Source |-> ".sbox"] >>

\* the names whose entry in the merged list is name-only: the last source
\* defining the name gives it no value
PassthroughNames ==
    {EnvName(Applied[i].Spec) : i \in {k \in 1..Len(Applied) :
        /\ k = Max(Defs(EnvName(Applied[k].Spec)))
        /\ Passthrough(Applied[k].Spec)}}

Written(list, name) == {list[k] : k \in {i \in 1..Len(list) : EnvName(list[i]) = name}}

C22_Step ==
    call.fn = "envs" =>
        /\ call'.merged # call.merged =>
               \A i \in 1..Len(call'.merged.list) :
                   EnvName(call'.merged.list[i].Spec) \in PassthroughNames
                       => Passthrough(call'.merged.list[i].Spec)
        /\ call'.written # call.written =>
               \A name \in PassthroughNames :
                   Written(call'.written.list, name) =
                       IF Getenv(call.host, name) # ""
                       THEN {<<name, Getenv(call.host, name)>>}
                       ELSE {}
        /\ call'.host # call.host => call'.written = call.written

\* C22: a name-only entry is still name-only in the merged list; the value
\* written for it to the env file is the host's value at the moment the file
\* is prepared (no entry when the host has none), and a later change of the
\* host's value does not touch what was written
C22_PassthroughResolvedAtPrepare == [][C22_Step]_vars

\* global TOKEN, project FOO=bar, sbox.yaml FOO=baz and BAZ=qux: merged to
\* [TOKEN, FOO=bar, BAZ=qux], written with the value h2 the host had when the
\* file was prepared, while the host's value is h1 by now
C22_Witness ==
    /\ call.fn = "envs"
    /\ call.global = <<<<"TOKEN">>>>
    /\ call.project = <<<<"FOO", "bar">>>>
    /\ call.sboxFile = <<<<"FOO", "baz">>, <<"BAZ", "qux">>>>
    /\ call.merged.st = "ok"
    /\ [i \in 1..Len(call.merged.list) |-> call.merged.list[i].Spec]
           = <<<<"TOKEN">>, <<"FOO", "bar">>, <<"BAZ", "qux">>>>
    /\ call.written.st = "ok"
    /\ call.written.list = <<<<"TOKEN", "h2">>, <<"FOO", "bar">>, <<"BAZ", "qux">>>>
    /\ call.host["TOKEN"] = "h1"

(***************************************************************************)
(* C23  profiles and volumes of the merge                                   *)
(***************************************************************************)
NoDup(q) == \A i, j \in 1..Len(q) : i # j => q[i] # q[j]

\* the merged list is the project's list followed by the entries of the
\* checked-in list it did not have, each once
DedupAppend(project, file, merged) ==
    /\ NoDup(merged)
    /\ IsPrefix(project, merged)
    /\ Elems(merged) = Elems(project) \cup Elems(file)

C23_Step ==
    (Merged /\ NoDup(cfg.stored.profiles) /\ NoDup(cfg.stored.volumes)) =>
        /\ DedupAppend(cfg.stored.profiles, cfg.file.profiles,
                       cfg'.eff.config.profiles)
        /\ DedupAppend(cfg.stored.volumes, ResolvedSpecs(cfg.file.volumes),
                       cfg'.eff.config.volumes)

\* C23: the merge appends the profiles and the volumes of sbox.yaml after the
\* project's entries, deduplicated by name: the merged lists hold no entry
\* twice, keep the project's entries in place, and hold every entry of
\* sbox.yaml that the project's list lacks
C23_MergeDeduplicates == [][C23_Step]_vars

(***************************************************************************)
(* C24  an unknown socket-mount value                                       *)
(***************************************************************************)
SocketValues == {"auto", "always", "never"}
UnknownSocket(v) == v # "" /\ v \notin SocketValues

\* a run merged the configuration (or failed to)
MergeRan == cfg'.eff # cfg.eff

C24_Step ==
    /\ (MergeRan /\ cfg'.eff.st = "ok") =>
           cfg'.eff.config.socket =
               IF cfg.file # NoSbox /\ cfg.file.socket # "" THEN cfg.file.socket
               ELSE cfg.stored.socket
    /\ (MergeRan /\ cfg'.eff.st # "ok") =>
           /\ cfg.file # NoSbox
           /\ \E i \in 1..Len(cfg.file.volumes) : ~ParseVolumeSpec(cfg.file.volumes[i]).ok
    /\ (call.fn = "args" /\ call'.out # call.out /\ call'.out.st = "ok"
        /\ backend = BackendSandbox /\ UnknownSocket(cfg.eff.config.socket)) =>
           call'.out.socket = (call'.explicit \/ call.config # "never")

Invalid(volumes) == \E i \in 1..Len(volumes) : ~ParseVolumeSpec(volumes[i]).ok

\* C25: an invalid volume specification, of sbox.yaml or of the project
\* configuration, is an error of the merge or of the construction of the
\* unit's arguments, so before the unit is created: no arguments are built
\* from a configuration that holds one
C25_InvalidVolumeIsAnError ==
    [][/\ (MergeRan /\ cfg.file # NoSbox /\ Invalid(cfg.file.volumes))
              => cfg'.eff.st # "ok"
       /\ (call.fn = "args" /\ call'.out # call.out /\ Invalid(cfg.eff.config.volumes))
              => call'.out.st # "ok"]_vars

(***************************************************************************)
(* C26, C27  resolution of profiles                                         *)
(***************************************************************************)
DepsOf(catalog, n) == IF n \in DOMAIN catalog THEN Elems(catalog[n]) ELSE {}

\* the names reached from the names of S in at most k dependency steps
RECURSIVE Reach(_, _, _)
Reach(catalog, S, k) ==
    IF k = 0 THEN S
    ELSE Reach(catalog, S \cup UNION {DepsOf(catalog, n) : n \in S}, k - 1)

Closure(catalog, S) == Reach(catalog, S, Cardinality(DOMAIN catalog))

\* no profile needed by the requested ones depends on itself, directly or not
Acyclic(catalog, profiles) ==
    \A n \in Closure(catalog, Elems(profiles)) :
        n \notin Closure(catalog, DepsOf(catalog, n))

\* C26: for a request whose dependencies are acyclic, ResolveProfiles returns
\* a list without duplicates, holding the requested names (known or not) and
\* their dependencies and nothing else, every dependency before the profile
\* that depends on it; resolving the result again returns it unchanged
C26_ResolveProfilesOrdered ==
    (call.fn = "profiles" /\ call.resolved # NotRun
     /\ Acyclic(call.catalog, call.Profiles)) =>
        /\ call.resolved.st = "ok"
        /\ LET list == call.resolved.list
           IN /\ NoDup(list)
              /\ Elems(list) = Closure(call.catalog, Elems(call.Profiles))
              /\ \A i \in 1..Len(list) : \A d \in DepsOf(call.catalog, list[i]) :
                     \E j \in 1..(i - 1) : list[j] = d
              /\ call.again # NotRun => call.again = call.resolved

\* the built-in catalog: substreams resolves to [rust, substreams], and to the
\* same list again; an unknown name is kept
C26_Witness ==
    /\ call.fn = "profiles"
    /\ call.catalog = BuiltinProfiles
    /\ call.Profiles = <<Substreams, Custom>>
    /\ call.resolved = [st |-> "ok", list |-> <<Rust, Substreams, Custom>>]
    /\ call.again = call.resolved

ResolvedSet(i) == Elems(ResolveProfiles(BuiltinProfiles, call.tb[i].Profiles).list)

\* C28: the tags of two builders are equal exactly when their sets of
\* resolved profile names and their versions are equal: the order and the
\* repetitions of the requested names do not matter, and a different set or
\* version gives a different tag
C28_TagIdentifiesSetAndVersion ==
    (call.fn = "tag" /\ call.tb[1].image # NotRun /\ call.tb[2].image # NotRun) =>
        (call.tb[1].image = call.tb[2].image
            <=> /\ ResolvedSet(1) = ResolvedSet(2)
                /\ sboxVersion(call.dev, call.tb[1].Version)
                       = sboxVersion(call.dev, call.tb[2].Version))

(***************************************************************************)
(* C29  at most one build per invocation                                    *)
(***************************************************************************)
\* invocation i inspected the image in this step
Checked(i) == call.inv[i].pc = "start" /\ call'.inv[i].pc # "start"

SameRequest(i, j) ==
    /\ Elems(ResolveProfiles(BuiltinProfiles, call.inv[i].Profiles).list)
           = Elems(ResolveProfiles(BuiltinProfiles, call.inv[j].Profiles).list)
    /\ call.inv[i].Version = call.inv[j].Version

C29_Step ==
    call.fn = "build" =>
        \A i \in Invocations :
            /\ (Checked(i) /\ ~call.inv[i].force /\ BuildImage(i) \in call.images) =>
                   /\ call'.inv[i].pc = "done"
                   /\ call'.inv[i].ret = [st |-> "ok", image |-> BuildImage(i)]
                   /\ call'.inv[i].builds = 0
            /\ (Checked(i) /\ (call.inv[i].force \/ BuildImage(i) \notin call.images)) =>
                   call'.inv[i].pc = "prepare"
            /\ call'.inv[i].builds <= 1
            /\ (call'.inv[i].pc = "done" /\ call'.inv[i].builds = 0) =>
                   \/ call'.inv[i].ret.st \in {"err_arch", "err_unknown_profile"}
                   \/ call'.inv[i].ret = [st |-> "ok", image |-> BuildImage(i)]
            /\ \A j \in Invocations :
                   (SameRequest(i, j) /\ call'.inv[i].builds = 1
                    /\ call'.inv[j].builds = 1) =>
                       call'.inv[i].target = call'.inv[j].target

\* C29: without forceRebuild, Build of an image that exists runs no build and
\* returns the image's name; otherwise it goes on to build, once: an
\* invocation runs `docker build` at most once (not at all only when the
\* preparation of the build fails), and the builds of invocations with the
\* same resolved profiles and version target the same tag
C29_AtMostOneBuild == [][C29_Step]_vars

\* two invocations for the same profiles and version found no image, both
\* built, and built the same tag
C29_Witness ==
    /\ call.fn = "build"
    /\ call.inv[1].Profiles = <<Substreams>>
    /\ call.inv[2].Profiles = <<Rust, Substreams>>
    /\ ~call.inv[1].force /\ ~call.inv[2].force
    /\ call.inv[1].builds = 1 /\ call.inv[2].builds = 1
    /\ call.inv[1].target = call.inv[2].target
    /\ call.inv[1].ret.st = "ok"

(***************************************************************************)
(* C30  drift detection                                                     *)
(***************************************************************************)
\* the mounts reported missing
Reported == IF call.out.st = "mismatch" THEN call.out.Missing ELSE <<>>

\* the actual mounts at a destination
ActualAt(d) == {call.actual[i] : i \in {k \in 1..Len(call.actual) :
                                          call.actual[k].Destination = d}}

\* the expected mount has no counterpart: nothing is mounted at its
\* destination, or what is mounted there comes from another resolved source
Drifted(e) ==
    \/ ActualAt(e.Destination) = {}
    \/ \E a \in ActualAt(e.Destination) : RealSource(a.Source) # RealSource(e.Source)

\* C30: the mounts reported missing are exactly the expected mounts, in their
\* order, whose destination has no actual mount or an actual mount whose
\* source, symbolic links resolved on both sides, is another; an actual mount
\* that is not expected is never reported
C30_MissingIffDrifted ==
    (call.fn = "mounts" /\ call.out # NotRun) =>
        /\ Reported = SelectSeq(call.expected, LAMBDA e : Drifted(e))
        /\ \A i \in 1..Len(Reported) : Reported[i] \in Elems(call.expected)
        /\ call.out.st = "mismatch" => Reported # <<>>

\* actual /link-a:/x (a link to /a), expected /a:/x and /b:/y: exactly /b:/y
\* is reported
C30_Witness ==
    /\ call.fn = "mounts"
    /\ call.actual = <<[Source |-> "/link-a", Destination |-> "/x"]>>
    /\ call.expected = <<[Source |-> "/a", Destination |-> "/x"],
                         [Source |-> "/b", Destination |-> "/y"]>>
    /\ call.out = [st |-> "mismatch",
                   Missing |-> <<[Source |-> "/b", Destination |-> "/y"]>>]

(***************************************************************************)
(* C31  a sandbox created under an older name                               *)
(***************************************************************************)
\* the units recorded for a workspace
UnitsOf(units, ws) == {u \in units : u.Workspace = ws}

\* C31: `run` in a workspace that has a sandbox under another name than the
\* generated one finds it through the recorded workspace and starts it: no
\* second sandbox is created for the workspace
C31_RunReusesOlderUnit ==
    [][(call.fn = "units" /\ call.backend = BackendSandbox
        /\ call'.last # call.last /\ call'.last.cmd = "run"
        /\ UnitsOf(call.units, call'.last.ws) # {}
        /\ ByName(call.units, SandboxNameOf(call.stored, call'.last.ws)) = NoUnit)
           => /\ ~call'.last.created
              /\ call'.last.target \in UnitsOf(call.units, call'.last.ws)
              /\ Cardinality(UnitsOf(call'.units, call'.last.ws)) = 1]_vars


\* the case: `run` just ran in a workspace whose sandbox bears an older name,
\* no name being stored for the workspace
C31_OlderUnitCase ==
    /\ call.fn = "units" /\ call.backend = BackendSandbox
    /\ call.last # NoLast /\ call.last.cmd = "run"
    /\ call.last.existing.Name = OldName
    /\ call.last.created
    /\ Cardinality(UnitsOf(call.units, call.last.ws)) = 2


(***************************************************************************)
(* C38  units of other workspaces                                           *)
(***************************************************************************)
\* C38: different workspaces have different unit names, and the unit that
\* run, shell or stop acts on is a unit of the workspace of the command
C38_OnlyOwnUnit ==
    [][(call.fn = "units" /\ call'.last # call.last /\ call'.last.target # NoUnit)
           => /\ call'.last.target.Workspace = call'.last.ws
              /\ \A other \in Workspaces \ {call'.last.ws} :
                     GenerateSandboxName(other) # GenerateSandboxName(call'.last.ws)]_vars


(***************************************************************************)
(* C32  run --recreate                                                      *)
(***************************************************************************)
\* the position of the first occurrence of op in invocation p's trace, 0 when
\* the invocation has not performed it
FirstOp(p, op) ==
    IF HasOp(p, op) THEN CHOOSE i \in 1..Len(trace[p]) :
                             trace[p][i] = op /\ \A j \in 1..(i - 1) : trace[p][j] # op
    ELSE 0

\* invocation p is a `run --recreate` of runE whose unit has been started
RecreateStarted(p) ==
    /\ backend = BackendSandbox
    /\ cmd[p].name = "run" /\ cmd[p].recreate /\ pc[p] = "attached"

\* invocation p removed, built with the build tool and created, in that order
OwnUnit(p) ==
    /\ HasOp(p, "rm") /\ HasOp(p, "docker build") /\ HasOp(p, "create")
    /\ ~HasOp(p, "already_exists")
    /\ FirstOp(p, "rm") < FirstOp(p, "docker build")
    /\ FirstOp(p, "docker build") < FirstOp(p, "create")

SupportedVersions == 1..EntrypointConfigVersion

\* C33: a manifest that was written is read back without error and equal
\* field for field to the configuration written (version, plugins, agents):
\* to the given configuration when its version is a supported one, and in
\* every case to the given configuration stamped with the current version
C33_ManifestRoundTrip ==
    (call.fn = "manifest" /\ call.out # NotRun) =>
        /\ call.out.st = "ok"
        /\ call.out.config = [call.config EXCEPT !.Version = EntrypointConfigVersion]
        /\ call.config.Version \in SupportedVersions => call.out.config = call.config

\* a manifest of the supported version with a plugin that has a version and an
\* agent has been written and read back
C33_Witness ==
    /\ call.fn = "manifest" /\ call.out # NotRun
    /\ call.config.Version \in SupportedVersions
    /\ call.config.Agents # <<>>
    /\ \E i \in 1..Len(call.config.Plugins) : call.config.Plugins[i].Version # ""


(***************************************************************************)
(* C34  shell                                                               *)
(***************************************************************************)
\* a unit of the workspace, by its recorded workspace or by its name, is running
RunningFor(units, ws) ==
    \E u \in units : /\ u.st = "running"
                     /\ (u.Workspace = ws \/ u.Name = GenerateSandboxName(ws))

\* the command just performed
Performed(c) == call.fn = "units" /\ call'.last # call.last /\ call'.last.cmd = c

\* C34: Shell returns an error and executes nothing when no unit of the
\* workspace is running (absent or stopped), and in every case leaves the
\* units as they were: it issues no create, start, stop or remove
C34_ShellNeedsRunningUnit ==
    [][Performed("shell") =>
          /\ call'.units = call.units
          /\ \A i \in 1..Len(call'.last.ops) : call'.last.ops[i] = "exec"
          /\ ~RunningFor(call.units, call'.last.ws)
                => (call'.last.res \in {"err_not_running", "err_find"}
                    /\ call'.last.ops = <<>>)]_vars

\* Shell has just failed in a workspace whose unit is stopped
C34_Witness ==
    /\ call.fn = "units" /\ call.last # NoLast /\ call.last.cmd = "shell"
    /\ call.last.res = "err_not_running"
    /\ \E u \in call.units : u.Workspace = call.last.ws /\ u.st = "stopped"
    /\ ~RunningFor(call.units, call.last.ws)


(***************************************************************************)
(* C37  stop --rm of a stopped unit                                         *)
(***************************************************************************)
\* the units Stop can see for the workspace: by name or recorded workspace
Visible(units, ws) ==
    {u \in units : u.Workspace = ws \/ u.Name = GenerateSandboxName(ws)}

\* C37: Stop(workspace, remove=true) removes a unit only if it was running:
\* when the units of the workspace exist but are stopped it returns absent
\* (or the error of the lookup), issues neither stop nor remove, and the
\* units still exist afterwards
C37_StopRemovesOnlyRunning ==
    [][Performed("stop --rm") =>
          /\ \A u \in call.units \ call'.units :
                 u.st = "running" /\ u = call'.last.target
          /\ (Visible(call.units, call'.last.ws) # {}
              /\ \A u \in Visible(call.units, call'.last.ws) : u.st = "stopped")
                => /\ call'.last.res \in {"absent", "err_find"}
                   /\ call'.last.ops = <<>>
                   /\ call'.units = call.units]_vars

\* Stop with remove has just returned absent for a workspace whose unit is
\* stopped, and the unit is still there
C37_Witness ==
    /\ call.fn = "units" /\ call.last # NoLast /\ call.last.cmd = "stop --rm"
    /\ call.last.res = "absent" /\ call.last.ops = <<>>
    /\ \E u \in call.units : u.Workspace = call.last.ws /\ u.st = "stopped"


(***************************************************************************)
(* C35  the lookup and the create of SandboxBackend.Run                     *)
(***************************************************************************)
C35_Step ==
    \A p \in Procs :
        (backend = BackendSandbox /\ cmd[p].name = "run" /\ cmd'[p] = cmd[p]
         /\ Stepped(p)) =>
            \* a failed or missed lookup is a unit absent: build, then create
            /\ (pc[p] = "lookup" /\ found'[p] = Nil) => pc'[p] = "build"
            /\ (pc[p] = "create" /\ pc'[p] # "create") =>
                   \* the create was attempted; rejected because the sandbox
                   \* exists, Run goes on to `docker sandbox run`
                   /\ "create" \in NewOps(p)
                   /\ Exists(unit) => (pc'[p] = "start" /\ unit' = unit)
                   \* any other failure ends Run before the unit is started
                   /\ (~Exists(unit) /\ ~Exists(unit')) =>
                          (pc'[p] = "idle" /\ res'[p] = "err_create")

\* C35: in SandboxBackend.Run a failed or missed lookup leads to a create
\* attempt; a create that fails because the sandbox already exists lets Run
\* continue to `docker sandbox run <name>`, any other create failure aborts
\* Run before the unit is started
C35_CreateFailures == [][C35_Step]_vars


(***************************************************************************)
(* C36  the project is registered before the unit is started               *)
(***************************************************************************)
\* the unit of the workspace runs and the run that started it saved the project
RunningAndSaved(c, ws) == c.unit[ws] = "running" /\ c.saved[ws] = "ok"

C36_Step ==
    (call.fn = "register") =>
        \A ws \in Projects :
            \* the unit is started by the step that follows the save
            /\ (call'.unit[ws] = "running" /\ call.unit[ws] # "running")
                   => (call.pcs[ws] = "run" /\ call.saved[ws] # "none")
            \* the save, failed or not, is followed by the run
            /\ (call.pcs[ws] = "save" /\ call'.pcs[ws] # "save") => call'.pcs[ws] = "run"
            \* the project is listed while the unit runs
            /\ (RunningAndSaved(call', ws) /\ ~call'.torn[ws])
                   => ws \in ListProjects(call'.registered)

HasRead == call.fn = "handoff" /\ call.out # NotRun

BothSaved == call.fn = "stored" /\ \A p \in Procs : call.inv[p].pc = "done"

\* the stored configuration holds the change of command c
Holds(c) ==
    CASE c.kind = "env add" -> c.arg \in Elems(GetProjectConfig(call.file).Envs)
      [] c.kind = "profile add" -> c.arg \in Elems(GetProjectConfig(call.file).Profiles)
      [] OTHER -> call.file.exists

\* the position of an event in the log
At(p, e) == CHOOSE i \in 1..Len(call.log) : call.log[i] = <<p, e>>

\* C40 as stated: after two invocations changed the stored configuration it
\* holds both changes
C40_NoLostUpdate == BothSaved => \A p \in Procs : Holds(call.inv[p].cmd)

\* C40 amended: the stored configuration is the copy of the invocation that
\* saved last: it holds that invocation's change, and the change of the other
\* when the other had saved before the last one loaded; a change saved after
\* that load is lost
C40_LastSaverWins ==
    BothSaved =>
        \A p, q \in Procs :
            (p # q /\ At(q, "save") < At(p, "save")) =>
                /\ call.file = [exists |-> TRUE, config |-> call.inv[p].copy]
                /\ Holds(call.inv[p].cmd)
                /\ At(q, "save") < At(p, "load") => Holds(call.inv[q].cmd)

\* `env add A=1` and `env add B=2` overlapped and the stored configuration
\* has lost one of them
C40_Witness ==
    /\ BothSaved
    /\ \A p \in Procs : call.inv[p].cmd.kind = "env add"
    /\ \E p \in Procs : ~Holds(call.inv[p].cmd)

====
